---------------------------- MODULE Spec2Model ----------------------------
(***************************************************************************)
(* A model of the CXR triage pipeline: threshold classification            *)
(* (InferenceClient.parse_findings), triage aggregation and report         *)
(* synthesis (ReportGenerator), the rewrite safety verifier (LLMService),  *)
(* detection post-processing (non_max_suppression, CXRDetector),           *)
(* calibration (CXRClassifier) and the inference service's endpoints.      *)
(*                                                                         *)
(* Representation.                                                         *)
(*  - A probability or threshold p is the integer 100*p (percent), so that *)
(*    0.7 * triage_threshold <= e is written 7 * t <= 10 * e.              *)
(*  - A Python str is the tuple of its characters (one-character strings), *)
(*    so that `in`, lower(), replace() and join() are computed and not     *)
(*    assumed.                                                             *)
(***************************************************************************)
EXTENDS Integers, Sequences, FiniteSets, TLC

VARIABLES
    ai_settings,    \* stored AISettings (AppSettings.ai)
    llm_settings,   \* stored LLMSettings (AppSettings.llm)
    response,       \* the inference response's "findings" of the request in progress
    findings,       \* parse_findings' result for the request in progress
    report,         \* the ReportResult being built by generate_report
    provider_out,   \* how the awaited provider call of rewrite_report ended
    triage,         \* determine_triage's result of the request
    rstate,         \* where the analyze_cxr request is
    det_state,      \* whether a CXRDetector.predict call has returned
    det_request,    \* the model output and parameters of that predict call
    det_keep,       \* keep_indices: what non_max_suppression returned in it
    det_result,     \* the list predict returned
    cls_file,       \* the calibration file as the last load found it
    cls_calibrator, \* self.calibrator of the CXRClassifier
    cls_loaded,     \* self.loaded of the CXRClassifier
    cls_state,      \* whether a CXRClassifier.predict call has returned
    cls_call,       \* the model output and the calibrate flag of that call
    cls_out,        \* what the call returned, or that it raised
    svc_classifier, \* the global classifier of the inference service
    svc_detector,   \* the global detector of the inference service
    svc_models_loaded, \* the global models_loaded of the inference service
    svc_pc,         \* where each request to the inference service is
    svc_running,    \* the requests whose handlers are running (between awaits)
    svc_resp,       \* what each request to the inference service was answered
    previous,       \* the last report a client received, and what it was made from
    study_table,    \* the Study row, with its Finding rows, of each study id
    broker,         \* the analyze_study task messages waiting in the broker
    worker          \* the analyze_study task the worker is executing

backend_vars ==
    <<ai_settings, llm_settings, response, findings, report, provider_out, triage, rstate>>
det_vars == <<det_state, det_request, det_keep, det_result>>
cls_vars == <<cls_file, cls_calibrator, cls_loaded, cls_state, cls_call, cls_out>>
svc_vars == <<svc_classifier, svc_detector, svc_models_loaded, svc_pc, svc_running, svc_resp>>
inference_vars == <<det_vars, cls_vars, svc_vars>>
study_vars == <<previous, study_table, broker, worker>>
vars == <<ai_settings, llm_settings, response, findings, report, provider_out, triage, rstate,
          det_state, det_request, det_keep, det_result,
          cls_file, cls_calibrator, cls_loaded, cls_state, cls_call, cls_out,
          svc_classifier, svc_detector, svc_models_loaded, svc_pc, svc_running, svc_resp,
          previous, study_table, broker, worker>>

-----------------------------------------------------------------------------
(* Python str operations on character tuples *)

\* str.lower() on one character
LowerChar(c) ==
    CASE c = "A" -> "a" [] c = "B" -> "b" [] c = "C" -> "c" [] c = "D" -> "d"
      [] c = "E" -> "e" [] c = "F" -> "f" [] c = "G" -> "g" [] c = "H" -> "h"
      [] c = "I" -> "i" [] c = "J" -> "j" [] c = "K" -> "k" [] c = "L" -> "l"
      [] c = "M" -> "m" [] c = "N" -> "n" [] c = "O" -> "o" [] c = "P" -> "p"
      [] c = "Q" -> "q" [] c = "R" -> "r" [] c = "S" -> "s" [] c = "T" -> "t"
      [] c = "U" -> "u" [] c = "V" -> "v" [] c = "W" -> "w" [] c = "X" -> "x"
      [] c = "Y" -> "y" [] c = "Z" -> "z" [] OTHER -> c

\* str.lower()
Lower(s) == [i \in 1..Len(s) |-> LowerChar(s[i])]

\* s.replace(" ", "_")
ReplaceSpaceUnderscore(s) == [i \in 1..Len(s) |-> IF s[i] = " " THEN "_" ELSE s[i]]

\* pat in text  (substring test; the empty string is in every string)
Contains(text, pat) ==
    \E i \in 0..(Len(text) - Len(pat)) :
        \A j \in 1..Len(pat) : text[i + j] = pat[j]

\* sep.join(parts)
RECURSIVE Join(_, _)
Join(parts, sep) ==
    IF Len(parts) = 0 THEN <<>>
    ELSE IF Len(parts) = 1 THEN parts[1]
    ELSE parts[1] \o sep \o Join(Tail(parts), sep)

\* the concatenation of a list of strings
Concat(parts) == Join(parts, <<>>)

-----------------------------------------------------------------------------
(* String constants of the source *)

\* 'pneumothorax'
Str_pneumothorax ==
    <<"p","n","e","u","m","o","t","h","o","r","a","x">>

\* 'pleural_effusion'
Str_pleural_effusion ==
    <<"p","l","e","u","r","a","l","_","e","f","f","u","s","i","o","n">>

\* 'consolidation'
Str_consolidation ==
    <<"c","o","n","s","o","l","i","d","a","t","i","o","n">>

\* 'cardiomegaly'
Str_cardiomegaly ==
    <<"c","a","r","d","i","o","m","e","g","a","l","y">>

\* 'edema'
Str_edema ==
    <<"e","d","e","m","a">>

\* 'nodule'
Str_nodule ==
    <<"n","o","d","u","l","e">>

\* 'mass'
Str_mass ==
    <<"m","a","s","s">>

\* FINDING_TEMPLATES: finding name -> variant -> sentence
FINDING_TEMPLATES ==
    (Str_pneumothorax :>
      [
       \* 'There is evidence of pneumothorax.'
       POSITIVE_STRONG |->
         <<"T","h","e","r","e"," ","i","s"," ","e","v","i","d","e","n","c","e"," ","o","f"," ","p","n","e",
           "u","m","o","t","h","o","r","a","x",".">>,
       \* 'Findings suggestive of pneumothorax. Clinical correlation recommended.'
       POSITIVE |->
         <<"F","i","n","d","i","n","g","s"," ","s","u","g","g","e","s","t","i","v","e"," ","o","f"," ","p",
           "n","e","u","m","o","t","h","o","r","a","x","."," ","C","l","i","n","i","c","a","l"," ","c","o",
           "r","r","e","l","a","t","i","o","n"," ","r","e","c","o","m","m","e","n","d","e","d",".">>,
       \* 'Cannot exclude small pneumothorax. Recommend clinical correlation and consider follow-up imaging if clinically indicated.'
       POSSIBLE |->
         <<"C","a","n","n","o","t"," ","e","x","c","l","u","d","e"," ","s","m","a","l","l"," ","p","n","e",
           "u","m","o","t","h","o","r","a","x","."," ","R","e","c","o","m","m","e","n","d"," ","c","l","i",
           "n","i","c","a","l"," ","c","o","r","r","e","l","a","t","i","o","n"," ","a","n","d"," ","c","o",
           "n","s","i","d","e","r"," ","f","o","l","l","o","w","-","u","p"," ","i","m","a","g","i","n","g",
           " ","i","f"," ","c","l","i","n","i","c","a","l","l","y"," ","i","n","d","i","c","a","t","e","d",
           ".">>,
       \* 'Equivocal findings in the pleural space. Cannot exclude pneumothorax. Radiologist review recommended.'
       UNCERTAIN |->
         <<"E","q","u","i","v","o","c","a","l"," ","f","i","n","d","i","n","g","s"," ","i","n"," ","t","h",
           "e"," ","p","l","e","u","r","a","l"," ","s","p","a","c","e","."," ","C","a","n","n","o","t"," ",
           "e","x","c","l","u","d","e"," ","p","n","e","u","m","o","t","h","o","r","a","x","."," ","R","a",
           "d","i","o","l","o","g","i","s","t"," ","r","e","v","i","e","w"," ","r","e","c","o","m","m","e",
           "n","d","e","d",".">>,
       \* 'No pneumothorax identified.'
       NEG_STRONG |->
         <<"N","o"," ","p","n","e","u","m","o","t","h","o","r","a","x"," ","i","d","e","n","t","i","f","i",
           "e","d",".">>,
       \* 'No definite pneumothorax seen on this examination.'
       NEG |->
         <<"N","o"," ","d","e","f","i","n","i","t","e"," ","p","n","e","u","m","o","t","h","o","r","a","x",
           " ","s","e","e","n"," ","o","n"," ","t","h","i","s"," ","e","x","a","m","i","n","a","t","i","o",
           "n",".">>
      ])
 @@ (Str_pleural_effusion :>
      [
       \* 'Pleural effusion is present.'
       POSITIVE_STRONG |->
         <<"P","l","e","u","r","a","l"," ","e","f","f","u","s","i","o","n"," ","i","s"," ","p","r","e","s",
           "e","n","t",".">>,
       \* 'Findings consistent with pleural effusion.'
       POSITIVE |->
         <<"F","i","n","d","i","n","g","s"," ","c","o","n","s","i","s","t","e","n","t"," ","w","i","t","h",
           " ","p","l","e","u","r","a","l"," ","e","f","f","u","s","i","o","n",".">>,
       \* 'Possible small pleural effusion. Clinical correlation recommended.'
       POSSIBLE |->
         <<"P","o","s","s","i","b","l","e"," ","s","m","a","l","l"," ","p","l","e","u","r","a","l"," ","e",
           "f","f","u","s","i","o","n","."," ","C","l","i","n","i","c","a","l"," ","c","o","r","r","e","l",
           "a","t","i","o","n"," ","r","e","c","o","m","m","e","n","d","e","d",".">>,
       \* 'Equivocal findings at the costophrenic angle. Cannot exclude small effusion.'
       UNCERTAIN |->
         <<"E","q","u","i","v","o","c","a","l"," ","f","i","n","d","i","n","g","s"," ","a","t"," ","t","h",
           "e"," ","c","o","s","t","o","p","h","r","e","n","i","c"," ","a","n","g","l","e","."," ","C","a",
           "n","n","o","t"," ","e","x","c","l","u","d","e"," ","s","m","a","l","l"," ","e","f","f","u","s",
           "i","o","n",".">>,
       \* 'No pleural effusion.'
       NEG_STRONG |->
         <<"N","o"," ","p","l","e","u","r","a","l"," ","e","f","f","u","s","i","o","n",".">>,
       \* 'No significant pleural effusion identified.'
       NEG |->
         <<"N","o"," ","s","i","g","n","i","f","i","c","a","n","t"," ","p","l","e","u","r","a","l"," ","e",
           "f","f","u","s","i","o","n"," ","i","d","e","n","t","i","f","i","e","d",".">>
      ])
 @@ (Str_consolidation :>
      [
       \* 'Pulmonary consolidation is present, which may represent pneumonia or other airspace disease.'
       POSITIVE_STRONG |->
         <<"P","u","l","m","o","n","a","r","y"," ","c","o","n","s","o","l","i","d","a","t","i","o","n"," ",
           "i","s"," ","p","r","e","s","e","n","t",","," ","w","h","i","c","h"," ","m","a","y"," ","r","e",
           "p","r","e","s","e","n","t"," ","p","n","e","u","m","o","n","i","a"," ","o","r"," ","o","t","h",
           "e","r"," ","a","i","r","s","p","a","c","e"," ","d","i","s","e","a","s","e",".">>,
       \* 'Findings suggestive of consolidation. Clinical correlation for infection or other etiology recommended.'
       POSITIVE |->
         <<"F","i","n","d","i","n","g","s"," ","s","u","g","g","e","s","t","i","v","e"," ","o","f"," ","c",
           "o","n","s","o","l","i","d","a","t","i","o","n","."," ","C","l","i","n","i","c","a","l"," ","c",
           "o","r","r","e","l","a","t","i","o","n"," ","f","o","r"," ","i","n","f","e","c","t","i","o","n",
           " ","o","r"," ","o","t","h","e","r"," ","e","t","i","o","l","o","g","y"," ","r","e","c","o","m",
           "m","e","n","d","e","d",".">>,
       \* 'Possible area of consolidation. Recommend clinical correlation.'
       POSSIBLE |->
         <<"P","o","s","s","i","b","l","e"," ","a","r","e","a"," ","o","f"," ","c","o","n","s","o","l","i",
           "d","a","t","i","o","n","."," ","R","e","c","o","m","m","e","n","d"," ","c","l","i","n","i","c",
           "a","l"," ","c","o","r","r","e","l","a","t","i","o","n",".">>,
       \* 'Equivocal opacity that may represent consolidation. Further evaluation may be warranted.'
       UNCERTAIN |->
         <<"E","q","u","i","v","o","c","a","l"," ","o","p","a","c","i","t","y"," ","t","h","a","t"," ","m",
           "a","y"," ","r","e","p","r","e","s","e","n","t"," ","c","o","n","s","o","l","i","d","a","t","i",
           "o","n","."," ","F","u","r","t","h","e","r"," ","e","v","a","l","u","a","t","i","o","n"," ","m",
           "a","y"," ","b","e"," ","w","a","r","r","a","n","t","e","d",".">>,
       \* 'No consolidation identified.'
       NEG_STRONG |->
         <<"N","o"," ","c","o","n","s","o","l","i","d","a","t","i","o","n"," ","i","d","e","n","t","i","f",
           "i","e","d",".">>,
       \* 'No definite consolidation seen.'
       NEG |->
         <<"N","o"," ","d","e","f","i","n","i","t","e"," ","c","o","n","s","o","l","i","d","a","t","i","o",
           "n"," ","s","e","e","n",".">>
      ])
 @@ (Str_cardiomegaly :>
      [
       \* 'The cardiac silhouette is enlarged, consistent with cardiomegaly.'
       POSITIVE_STRONG |->
         <<"T","h","e"," ","c","a","r","d","i","a","c"," ","s","i","l","h","o","u","e","t","t","e"," ","i",
           "s"," ","e","n","l","a","r","g","e","d",","," ","c","o","n","s","i","s","t","e","n","t"," ","w",
           "i","t","h"," ","c","a","r","d","i","o","m","e","g","a","l","y",".">>,
       \* 'The heart appears enlarged. Clinical correlation recommended.'
       POSITIVE |->
         <<"T","h","e"," ","h","e","a","r","t"," ","a","p","p","e","a","r","s"," ","e","n","l","a","r","g",
           "e","d","."," ","C","l","i","n","i","c","a","l"," ","c","o","r","r","e","l","a","t","i","o","n",
           " ","r","e","c","o","m","m","e","n","d","e","d",".">>,
       \* 'The cardiac silhouette is at the upper limits of normal. Possible mild cardiomegaly.'
       POSSIBLE |->
         <<"T","h","e"," ","c","a","r","d","i","a","c"," ","s","i","l","h","o","u","e","t","t","e"," ","i",
           "s"," ","a","t"," ","t","h","e"," ","u","p","p","e","r"," ","l","i","m","i","t","s"," ","o","f",
           " ","n","o","r","m","a","l","."," ","P","o","s","s","i","b","l","e"," ","m","i","l","d"," ","c",
           "a","r","d","i","o","m","e","g","a","l","y",".">>,
       \* 'Cardiac silhouette size is difficult to assess. Consider dedicated cardiac imaging if clinically indicated.'
       UNCERTAIN |->
         <<"C","a","r","d","i","a","c"," ","s","i","l","h","o","u","e","t","t","e"," ","s","i","z","e"," ",
           "i","s"," ","d","i","f","f","i","c","u","l","t"," ","t","o"," ","a","s","s","e","s","s","."," ",
           "C","o","n","s","i","d","e","r"," ","d","e","d","i","c","a","t","e","d"," ","c","a","r","d","i",
           "a","c"," ","i","m","a","g","i","n","g"," ","i","f"," ","c","l","i","n","i","c","a","l","l","y",
           " ","i","n","d","i","c","a","t","e","d",".">>,
       \* 'Normal cardiac silhouette size.'
       NEG_STRONG |->
         <<"N","o","r","m","a","l"," ","c","a","r","d","i","a","c"," ","s","i","l","h","o","u","e","t","t",
           "e"," ","s","i","z","e",".">>,
       \* 'The cardiac silhouette is within normal limits.'
       NEG |->
         <<"T","h","e"," ","c","a","r","d","i","a","c"," ","s","i","l","h","o","u","e","t","t","e"," ","i",
           "s"," ","w","i","t","h","i","n"," ","n","o","r","m","a","l"," ","l","i","m","i","t","s",".">>
      ])
 @@ (Str_edema :>
      [
       \* 'Findings consistent with pulmonary edema.'
       POSITIVE_STRONG |->
         <<"F","i","n","d","i","n","g","s"," ","c","o","n","s","i","s","t","e","n","t"," ","w","i","t","h",
           " ","p","u","l","m","o","n","a","r","y"," ","e","d","e","m","a",".">>,
       \* 'Interstitial markings suggestive of pulmonary edema. Clinical correlation recommended.'
       POSITIVE |->
         <<"I","n","t","e","r","s","t","i","t","i","a","l"," ","m","a","r","k","i","n","g","s"," ","s","u",
           "g","g","e","s","t","i","v","e"," ","o","f"," ","p","u","l","m","o","n","a","r","y"," ","e","d",
           "e","m","a","."," ","C","l","i","n","i","c","a","l"," ","c","o","r","r","e","l","a","t","i","o",
           "n"," ","r","e","c","o","m","m","e","n","d","e","d",".">>,
       \* 'Possible mild pulmonary edema. Recommend clinical correlation.'
       POSSIBLE |->
         <<"P","o","s","s","i","b","l","e"," ","m","i","l","d"," ","p","u","l","m","o","n","a","r","y"," ",
           "e","d","e","m","a","."," ","R","e","c","o","m","m","e","n","d"," ","c","l","i","n","i","c","a",
           "l"," ","c","o","r","r","e","l","a","t","i","o","n",".">>,
       \* 'Equivocal interstitial markings. Cannot exclude early pulmonary edema.'
       UNCERTAIN |->
         <<"E","q","u","i","v","o","c","a","l"," ","i","n","t","e","r","s","t","i","t","i","a","l"," ","m",
           "a","r","k","i","n","g","s","."," ","C","a","n","n","o","t"," ","e","x","c","l","u","d","e"," ",
           "e","a","r","l","y"," ","p","u","l","m","o","n","a","r","y"," ","e","d","e","m","a",".">>,
       \* 'No pulmonary edema.'
       NEG_STRONG |->
         <<"N","o"," ","p","u","l","m","o","n","a","r","y"," ","e","d","e","m","a",".">>,
       \* 'No significant pulmonary edema identified.'
       NEG |->
         <<"N","o"," ","s","i","g","n","i","f","i","c","a","n","t"," ","p","u","l","m","o","n","a","r","y",
           " ","e","d","e","m","a"," ","i","d","e","n","t","i","f","i","e","d",".">>
      ])
 @@ (Str_nodule :>
      [
       \* 'Pulmonary nodule identified. Further evaluation with CT recommended.'
       POSITIVE_STRONG |->
         <<"P","u","l","m","o","n","a","r","y"," ","n","o","d","u","l","e"," ","i","d","e","n","t","i","f",
           "i","e","d","."," ","F","u","r","t","h","e","r"," ","e","v","a","l","u","a","t","i","o","n"," ",
           "w","i","t","h"," ","C","T"," ","r","e","c","o","m","m","e","n","d","e","d",".">>,
       \* 'Possible pulmonary nodule. Consider CT for further characterization.'
       POSITIVE |->
         <<"P","o","s","s","i","b","l","e"," ","p","u","l","m","o","n","a","r","y"," ","n","o","d","u","l",
           "e","."," ","C","o","n","s","i","d","e","r"," ","C","T"," ","f","o","r"," ","f","u","r","t","h",
           "e","r"," ","c","h","a","r","a","c","t","e","r","i","z","a","t","i","o","n",".">>,
       \* 'Questionable nodular opacity. CT may be considered for further evaluation if clinically indicated.'
       POSSIBLE |->
         <<"Q","u","e","s","t","i","o","n","a","b","l","e"," ","n","o","d","u","l","a","r"," ","o","p","a",
           "c","i","t","y","."," ","C","T"," ","m","a","y"," ","b","e"," ","c","o","n","s","i","d","e","r",
           "e","d"," ","f","o","r"," ","f","u","r","t","h","e","r"," ","e","v","a","l","u","a","t","i","o",
           "n"," ","i","f"," ","c","l","i","n","i","c","a","l","l","y"," ","i","n","d","i","c","a","t","e",
           "d",".">>,
       \* 'Equivocal finding that may represent a nodule. Clinical correlation and possible follow-up recommended.'
       UNCERTAIN |->
         <<"E","q","u","i","v","o","c","a","l"," ","f","i","n","d","i","n","g"," ","t","h","a","t"," ","m",
           "a","y"," ","r","e","p","r","e","s","e","n","t"," ","a"," ","n","o","d","u","l","e","."," ","C",
           "l","i","n","i","c","a","l"," ","c","o","r","r","e","l","a","t","i","o","n"," ","a","n","d"," ",
           "p","o","s","s","i","b","l","e"," ","f","o","l","l","o","w","-","u","p"," ","r","e","c","o","m",
           "m","e","n","d","e","d",".">>,
       \* 'No pulmonary nodules identified.'
       NEG_STRONG |->
         <<"N","o"," ","p","u","l","m","o","n","a","r","y"," ","n","o","d","u","l","e","s"," ","i","d","e",
           "n","t","i","f","i","e","d",".">>,
       \* 'No definite pulmonary nodules seen on this examination.'
       NEG |->
         <<"N","o"," ","d","e","f","i","n","i","t","e"," ","p","u","l","m","o","n","a","r","y"," ","n","o",
           "d","u","l","e","s"," ","s","e","e","n"," ","o","n"," ","t","h","i","s"," ","e","x","a","m","i",
           "n","a","t","i","o","n",".">>
      ])
 @@ (Str_mass :>
      [
       \* 'Pulmonary mass identified. Urgent CT and clinical correlation recommended.'
       POSITIVE_STRONG |->
         <<"P","u","l","m","o","n","a","r","y"," ","m","a","s","s"," ","i","d","e","n","t","i","f","i","e",
           "d","."," ","U","r","g","e","n","t"," ","C","T"," ","a","n","d"," ","c","l","i","n","i","c","a",
           "l"," ","c","o","r","r","e","l","a","t","i","o","n"," ","r","e","c","o","m","m","e","n","d","e",
           "d",".">>,
       \* 'Findings suggestive of pulmonary mass. CT recommended for further evaluation.'
       POSITIVE |->
         <<"F","i","n","d","i","n","g","s"," ","s","u","g","g","e","s","t","i","v","e"," ","o","f"," ","p",
           "u","l","m","o","n","a","r","y"," ","m","a","s","s","."," ","C","T"," ","r","e","c","o","m","m",
           "e","n","d","e","d"," ","f","o","r"," ","f","u","r","t","h","e","r"," ","e","v","a","l","u","a",
           "t","i","o","n",".">>,
       \* 'Possible pulmonary mass. Further imaging recommended.'
       POSSIBLE |->
         <<"P","o","s","s","i","b","l","e"," ","p","u","l","m","o","n","a","r","y"," ","m","a","s","s",".",
           " ","F","u","r","t","h","e","r"," ","i","m","a","g","i","n","g"," ","r","e","c","o","m","m","e",
           "n","d","e","d",".">>,
       \* 'Equivocal opacity that may represent a mass. Further evaluation recommended.'
       UNCERTAIN |->
         <<"E","q","u","i","v","o","c","a","l"," ","o","p","a","c","i","t","y"," ","t","h","a","t"," ","m",
           "a","y"," ","r","e","p","r","e","s","e","n","t"," ","a"," ","m","a","s","s","."," ","F","u","r",
           "t","h","e","r"," ","e","v","a","l","u","a","t","i","o","n"," ","r","e","c","o","m","m","e","n",
           "d","e","d",".">>,
       \* 'No pulmonary masses identified.'
       NEG_STRONG |->
         <<"N","o"," ","p","u","l","m","o","n","a","r","y"," ","m","a","s","s","e","s"," ","i","d","e","n",
           "t","i","f","i","e","d",".">>,
       \* 'No definite pulmonary masses seen.'
       NEG |->
         <<"N","o"," ","d","e","f","i","n","i","t","e"," ","p","u","l","m","o","n","a","r","y"," ","m","a",
           "s","s","e","s"," ","s","e","e","n",".">>
      ])

\* the fixed pieces of text of ReportGenerator: the fallback sentences of
\* _generate_finding_text, IMPRESSION_TEMPLATES around their placeholder, the
\* reasons of determine_triage and the frame of template_report
Phrase ==
    [
      \* 'High confidence '
      High_confidence |->
        <<"H","i","g","h"," ","c","o","n","f","i","d","e","n","c","e"," ">>,
      \* ' detected'
      detected |->
        <<" ","d","e","t","e","c","t","e","d">>,
      \* 'Possible '
      Possible |->
        <<"P","o","s","s","i","b","l","e"," ">>,
      \* 'Uncertain '
      Uncertain |->
        <<"U","n","c","e","r","t","a","i","n"," ">>,
      \* ' - needs review'
      needs_review |->
        <<" ","-"," ","n","e","e","d","s"," ","r","e","v","i","e","w">>,
      \* 'No significant abnormalities detected'
      No_abnormalities_detected |->
        <<"N","o"," ","s","i","g","n","i","f","i","c","a","n","t"," ","a","b","n","o","r","m","a","l","i",
          "t","i","e","s"," ","d","e","t","e","c","t","e","d">>,
      \* 'Findings suggestive of '
      Findings_suggestive_of |->
        <<"F","i","n","d","i","n","g","s"," ","s","u","g","g","e","s","t","i","v","e"," ","o","f"," ">>,
      \* '.'
      dot |->
        <<".">>,
      \* '. Clinical correlation recommended.'
      Clinical_correlation |->
        <<"."," ","C","l","i","n","i","c","a","l"," ","c","o","r","r","e","l","a","t","i","o","n"," ","r",
          "e","c","o","m","m","e","n","d","e","d",".">>,
      \* 'Cannot exclude '
      Cannot_exclude |->
        <<"C","a","n","n","o","t"," ","e","x","c","l","u","d","e"," ">>,
      \* '. Radiologist review recommended.'
      Radiologist_review |->
        <<"."," ","R","a","d","i","o","l","o","g","i","s","t"," ","r","e","v","i","e","w"," ","r","e","c",
          "o","m","m","e","n","d","e","d",".">>,
      \* 'No significant '
      No_significant |->
        <<"N","o"," ","s","i","g","n","i","f","i","c","a","n","t"," ">>,
      \* ' identified.'
      identified |->
        <<" ","i","d","e","n","t","i","f","i","e","d",".">>,
      \* 'No significant abnormalities identified.'
      No_abnormalities_identified |->
        <<"N","o"," ","s","i","g","n","i","f","i","c","a","n","t"," ","a","b","n","o","r","m","a","l","i",
          "t","i","e","s"," ","i","d","e","n","t","i","f","i","e","d",".">>,
      \* 'URGENT: '
      URGENT_prefix |->
        <<"U","R","G","E","N","T",":"," ">>,
      \* '. Immediate clinical attention recommended.'
      URGENT_suffix |->
        <<"."," ","I","m","m","e","d","i","a","t","e"," ","c","l","i","n","i","c","a","l"," ","a","t","t",
          "e","n","t","i","o","n"," ","r","e","c","o","m","m","e","n","d","e","d",".">>,
      \* 'Abnormal chest radiograph with '
      ROUTINE_prefix |->
        <<"A","b","n","o","r","m","a","l"," ","c","h","e","s","t"," ","r","a","d","i","o","g","r","a","p",
          "h"," ","w","i","t","h"," ">>,
      \* 'No acute cardiopulmonary abnormality identified.'
      NORMAL_impression |->
        <<"N","o"," ","a","c","u","t","e"," ","c","a","r","d","i","o","p","u","l","m","o","n","a","r","y",
          " ","a","b","n","o","r","m","a","l","i","t","y"," ","i","d","e","n","t","i","f","i","e","d",".">>,
      \* 'Limited examination with equivocal findings. Radiologist review recommended. '
      UNCERTAIN_prefix |->
        <<"L","i","m","i","t","e","d"," ","e","x","a","m","i","n","a","t","i","o","n"," ","w","i","t","h",
          " ","e","q","u","i","v","o","c","a","l"," ","f","i","n","d","i","n","g","s","."," ","R","a","d",
          "i","o","l","o","g","i","s","t"," ","r","e","v","i","e","w"," ","r","e","c","o","m","m","e","n",
          "d","e","d","."," ">>,
      \* 'Cannot exclude: '
      Cannot_exclude_colon |->
        <<"C","a","n","n","o","t"," ","e","x","c","l","u","d","e",":"," ">>,
      \* ', '
      comma_space |->
        <<","," ">>,
      \* ' '
      space |->
        <<" ">>,
      \* 'FINDINGS:'
      FINDINGS |->
        <<"F","I","N","D","I","N","G","S",":">>,
      \* 'IMPRESSION:'
      IMPRESSION |->
        <<"I","M","P","R","E","S","S","I","O","N",":">>,
      \* 'FINDINGS:\n'
      FINDINGS_header |->
        <<"F","I","N","D","I","N","G","S",":","\n">>,
      \* '\n\nIMPRESSION:\n'
      IMPRESSION_header |->
        <<"\n","\n","I","M","P","R","E","S","S","I","O","N",":","\n">>
    ]

\* the words negation_patterns puts before a term: f"no {term}", ...
NegationPrefixes ==
    <<
      \* 'no '
      <<"n","o"," ">>,
      \* 'no evidence of '
      <<"n","o"," ","e","v","i","d","e","n","c","e"," ","o","f"," ">>,
      \* 'without '
      <<"w","i","t","h","o","u","t"," ">>,
      \* 'negative for '
      <<"n","e","g","a","t","i","v","e"," ","f","o","r"," ">>,
      \* 'absent '
      <<"a","b","s","e","n","t"," ">>,
      \* 'no significant '
      <<"n","o"," ","s","i","g","n","i","f","i","c","a","n","t"," ">>
    >>

\* medical_terms of _verify_no_new_findings
medical_terms ==
    <<
      \* 'pneumothorax'
      <<"p","n","e","u","m","o","t","h","o","r","a","x">>,
      \* 'pleural effusion'
      <<"p","l","e","u","r","a","l"," ","e","f","f","u","s","i","o","n">>,
      \* 'effusion'
      <<"e","f","f","u","s","i","o","n">>,
      \* 'consolidation'
      <<"c","o","n","s","o","l","i","d","a","t","i","o","n">>,
      \* 'atelectasis'
      <<"a","t","e","l","e","c","t","a","s","i","s">>,
      \* 'cardiomegaly'
      <<"c","a","r","d","i","o","m","e","g","a","l","y">>,
      \* 'edema'
      <<"e","d","e","m","a">>,
      \* 'pulmonary edema'
      <<"p","u","l","m","o","n","a","r","y"," ","e","d","e","m","a">>,
      \* 'nodule'
      <<"n","o","d","u","l","e">>,
      \* 'mass'
      <<"m","a","s","s">>,
      \* 'tumor'
      <<"t","u","m","o","r">>,
      \* 'cancer'
      <<"c","a","n","c","e","r">>,
      \* 'malignancy'
      <<"m","a","l","i","g","n","a","n","c","y">>,
      \* 'pneumonia'
      <<"p","n","e","u","m","o","n","i","a">>,
      \* 'infiltrate'
      <<"i","n","f","i","l","t","r","a","t","e">>,
      \* 'opacity'
      <<"o","p","a","c","i","t","y">>,
      \* 'lesion'
      <<"l","e","s","i","o","n">>,
      \* 'fracture'
      <<"f","r","a","c","t","u","r","e">>,
      \* 'emphysema'
      <<"e","m","p","h","y","s","e","m","a">>,
      \* 'fibrosis'
      <<"f","i","b","r","o","s","i","s">>,
      \* 'calcification'
      <<"c","a","l","c","i","f","i","c","a","t","i","o","n">>,
      \* 'lymphadenopathy'
      <<"l","y","m","p","h","a","d","e","n","o","p","a","t","h","y">>,
      \* 'mediastinal widening'
      <<"m","e","d","i","a","s","t","i","n","a","l"," ","w","i","d","e","n","i","n","g">>,
      \* 'aortic aneurysm'
      <<"a","o","r","t","i","c"," ","a","n","e","u","r","y","s","m">>
    >>

-----------------------------------------------------------------------------
(* Configuration: backend/app/config.py *)

\* FindingThreshold(triage_threshold, strong_threshold, enabled)
FindingThreshold(t, s, en) ==
    [triage_threshold |-> t, strong_threshold |-> s, enabled |-> en]

\* FindingThreshold(): the model's field defaults 0.3, 0.7, True
FindingThresholdDefault == FindingThreshold(30, 70, TRUE)

\* the per-finding threshold fields of a default AISettings()
DefaultThresholds ==
    (Str_pneumothorax :> FindingThreshold(25, 65, TRUE))
 @@ (Str_pleural_effusion :> FindingThreshold(30, 70, TRUE))
 @@ (Str_consolidation :> FindingThreshold(35, 70, TRUE))
 @@ (Str_cardiomegaly :> FindingThreshold(40, 75, TRUE))
 @@ (Str_edema :> FindingThreshold(35, 70, TRUE))
 @@ (Str_nodule :> FindingThreshold(30, 65, TRUE))
 @@ (Str_mass :> FindingThreshold(25, 60, TRUE))

\* AISettings(): the classification-related fields
DefaultAISettings ==
    [thresholds |-> DefaultThresholds, calibration_enabled |-> TRUE]

\* AISettings.get_threshold(finding_name)
get_threshold(ai, finding_name) ==
    IF Lower(finding_name) \in DOMAIN ai.thresholds
    THEN ai.thresholds[Lower(finding_name)]
    ELSE FindingThresholdDefault

\* the provider names LLMSettings.active_provider accepts
Providers == {"azure_openai", "claude", "gemini"}

\* LLMSettings(): no active provider, every provider disabled, rewrite off
DefaultLLMSettings ==
    [active_provider |-> "none",
     enabled |-> [p \in Providers |-> FALSE],
     llm_rewrite_enabled |-> FALSE]

-----------------------------------------------------------------------------
(* Threshold classification: InferenceClient.parse_findings *)

\* the status chain of parse_findings for effective probability e
StatusOf(e, threshold) ==
    IF e >= threshold.strong_threshold THEN "POSITIVE"
    ELSE IF e >= threshold.triage_threshold THEN "POSSIBLE"
    ELSE IF 10 * e >= 7 * threshold.triage_threshold THEN "UNCERTAIN"
    ELSE "NEG"

\* effective_prob = calibrated_prob if ai_settings.calibration_enabled else prob
EffectiveProb(ai, prob, calibrated_prob) ==
    IF ai.calibration_enabled THEN calibrated_prob ELSE prob

\* one iteration of parse_findings' loop: the FindingResult built from f
ParseFinding(f, ai) ==
    LET threshold == get_threshold(ai, f.name)
        effective_prob == EffectiveProb(ai, f.probability, f.calibrated_probability)
    IN  [finding_name |-> f.name,
         probability |-> f.probability,
         calibrated_probability |-> f.calibrated_probability,
         status |-> StatusOf(effective_prob, threshold),
         triage_threshold |-> threshold.triage_threshold,
         strong_threshold |-> threshold.strong_threshold]

\* parse_findings(response, ai_settings): one FindingResult per raw finding, in order
parse_findings(resp, ai) == [i \in 1..Len(resp) |-> ParseFinding(resp[i], ai)]

-----------------------------------------------------------------------------
(* Triage aggregation: ReportGenerator._categorize_findings, determine_triage *)

\* prob = finding.calibrated_probability or finding.probability
\* (Python's `or`: the calibrated value unless it is falsy, i.e. 0)
ProbOr(finding) ==
    IF finding.calibrated_probability # 0
    THEN finding.calibrated_probability
    ELSE finding.probability

\* _categorize_findings without its `if not threshold.enabled: continue`
CategoryOf_IgnoresEnabled(finding, ai) ==
    LET threshold == get_threshold(ai, finding.finding_name)
        prob == ProbOr(finding)
    IN  IF finding.status = "POSITIVE" /\ prob >= threshold.strong_threshold
        THEN "urgent"
        ELSE IF finding.status \in {"POSITIVE", "POSSIBLE"} THEN "routine"
        ELSE IF finding.status = "UNCERTAIN" THEN "uncertain"
        ELSE "negative"

\* the list _categorize_findings appends finding to ("skip": none, it is disabled)
CategoryOf(finding, ai) ==
    LET threshold == get_threshold(ai, finding.finding_name)
        prob == ProbOr(finding)
    IN  IF ~threshold.enabled THEN "skip"
        ELSE IF finding.status = "POSITIVE" /\ prob >= threshold.strong_threshold
             THEN "urgent"
        ELSE IF finding.status \in {"POSITIVE", "POSSIBLE"} THEN "routine"
        ELSE IF finding.status = "UNCERTAIN" THEN "uncertain"
        ELSE "negative"

\* the names of the findings of one category, in input order
RECURSIVE NamesOfCategory(_, _, _)
NamesOfCategory(fs, ai, cat) ==
    IF fs = <<>> THEN <<>>
    ELSE (IF CategoryOf(Head(fs), ai) = cat THEN <<Head(fs).finding_name>> ELSE <<>>)
         \o NamesOfCategory(Tail(fs), ai, cat)

\* the sequence s back to front
Reversed(s) == [k \in 1..Len(s) |-> s[Len(s) + 1 - k]]

\* _categorize_findings with insert(0, name) for append(name)
categorize_findings_Prepends(fs, ai) ==
    [urgent |-> Reversed(NamesOfCategory(fs, ai, "urgent")),
     routine |-> Reversed(NamesOfCategory(fs, ai, "routine")),
     uncertain |-> Reversed(NamesOfCategory(fs, ai, "uncertain")),
     negative |-> Reversed(NamesOfCategory(fs, ai, "negative"))]

\* _categorize_findings(findings): (urgent, routine, uncertain, negative)
categorize_findings(fs, ai) ==
    [urgent |-> NamesOfCategory(fs, ai, "urgent"),
     routine |-> NamesOfCategory(fs, ai, "routine"),
     uncertain |-> NamesOfCategory(fs, ai, "uncertain"),
     negative |-> NamesOfCategory(fs, ai, "negative")]

\* f"High confidence {f} detected"
ReasonUrgent(f) == Phrase.High_confidence \o f \o Phrase.detected

\* f"Possible {f} detected"
ReasonRoutine(f) == Phrase.Possible \o f \o Phrase.detected

\* f"Uncertain {f} - needs review"
ReasonUncertain(f) == Phrase.Uncertain \o f \o Phrase.needs_review

\* determine_triage with the routine branch tested before the urgent one
determine_triage_RoutineFirst(fs, ai) ==
    LET c == categorize_findings(fs, ai)
    IN  IF c.routine # <<>>
        THEN [level |-> "ROUTINE",
              reasons |-> [i \in 1..Len(c.routine) |-> ReasonRoutine(c.routine[i])]]
        ELSE IF c.urgent # <<>>
        THEN [level |-> "URGENT",
              reasons |-> [i \in 1..Len(c.urgent) |-> ReasonUrgent(c.urgent[i])]]
        ELSE IF c.uncertain # <<>>
        THEN [level |-> "ROUTINE",
              reasons |-> [i \in 1..Len(c.uncertain) |-> ReasonUncertain(c.uncertain[i])]]
        ELSE [level |-> "NORMAL", reasons |-> <<Phrase.No_abnormalities_detected>>]

\* determine_triage(findings): (triage_level, reasons)
determine_triage(fs, ai) ==
    LET c == categorize_findings(fs, ai)
    IN  IF c.urgent # <<>>
        THEN [level |-> "URGENT",
              reasons |-> [i \in 1..Len(c.urgent) |-> ReasonUrgent(c.urgent[i])]]
        ELSE IF c.routine # <<>>
        THEN [level |-> "ROUTINE",
              reasons |-> [i \in 1..Len(c.routine) |-> ReasonRoutine(c.routine[i])]]
        ELSE IF c.uncertain # <<>>
        THEN [level |-> "ROUTINE",
              reasons |-> [i \in 1..Len(c.uncertain) |-> ReasonUncertain(c.uncertain[i])]]
        ELSE [level |-> "NORMAL", reasons |-> <<Phrase.No_abnormalities_detected>>]

-----------------------------------------------------------------------------
(* Deterministic report phase: ReportGenerator *)

\* the "strong negative" cutoff 0.1 of _get_finding_status_key
StrongNegativeCutoff == 10

\* _get_finding_status_key(finding)
get_finding_status_key(finding) ==
    LET prob == ProbOr(finding)
    IN  IF finding.status = "POSITIVE"
        THEN (IF prob >= finding.strong_threshold THEN "POSITIVE_STRONG" ELSE "POSITIVE")
        ELSE IF finding.status = "POSSIBLE" THEN "POSSIBLE"
        ELSE IF finding.status = "UNCERTAIN" THEN "UNCERTAIN"
        ELSE (IF prob < StrongNegativeCutoff THEN "NEG_STRONG" ELSE "NEG")

\* the fallback generic sentence of _generate_finding_text, keyed by status only
GenericFindingText(finding) ==
    IF finding.status = "POSITIVE"
    THEN Phrase.Findings_suggestive_of \o finding.finding_name \o Phrase.dot
    ELSE IF finding.status = "POSSIBLE"
    THEN Phrase.Possible \o finding.finding_name \o Phrase.Clinical_correlation
    ELSE IF finding.status = "UNCERTAIN"
    THEN Phrase.Cannot_exclude \o finding.finding_name \o Phrase.Radiologist_review
    ELSE Phrase.No_significant \o finding.finding_name \o Phrase.identified

\* the field of a FINDING_TEMPLATES entry named by a status key
TemplateFor(templates, status_key) ==
    CASE status_key = "POSITIVE_STRONG" -> templates.POSITIVE_STRONG
      [] status_key = "POSITIVE" -> templates.POSITIVE
      [] status_key = "POSSIBLE" -> templates.POSSIBLE
      [] status_key = "UNCERTAIN" -> templates.UNCERTAIN
      [] status_key = "NEG_STRONG" -> templates.NEG_STRONG
      [] OTHER -> templates.NEG

\* _generate_finding_text(finding)
generate_finding_text(finding) ==
    LET finding_name == ReplaceSpaceUnderscore(Lower(finding.finding_name))
        status_key == get_finding_status_key(finding)
    IN  IF finding_name \in DOMAIN FINDING_TEMPLATES
        THEN TemplateFor(FINDING_TEMPLATES[finding_name], status_key)
        ELSE GenericFindingText(finding)

\* the template is looked up by the level: uncertain findings alone, level
\* ROUTINE, fill the ROUTINE template
generate_impression_KeyedByLevel(fs, ai) ==
    LET c == categorize_findings(fs, ai)
    IN  IF c.urgent # <<>>
        THEN [triage_level |-> "URGENT",
              impression |-> Phrase.URGENT_prefix \o Join(c.urgent, Phrase.comma_space)
                             \o Phrase.URGENT_suffix]
        ELSE IF c.routine \o c.uncertain # <<>>
        THEN [triage_level |-> "ROUTINE",
              impression |-> Phrase.ROUTINE_prefix
                             \o Join(c.routine \o c.uncertain, Phrase.comma_space)
                             \o Phrase.Clinical_correlation]
        ELSE [triage_level |-> "NORMAL", impression |-> Phrase.NORMAL_impression]

\* _generate_impression(findings): (impression, triage_level)
generate_impression(fs, ai) ==
    LET c == categorize_findings(fs, ai)
    IN  IF c.urgent # <<>>
        THEN [triage_level |-> "URGENT",
              impression |-> Phrase.URGENT_prefix \o Join(c.urgent, Phrase.comma_space)
                             \o Phrase.URGENT_suffix]
        ELSE IF c.routine # <<>>
        THEN [triage_level |-> "ROUTINE",
              impression |-> Phrase.ROUTINE_prefix \o Join(c.routine, Phrase.comma_space)
                             \o Phrase.Clinical_correlation]
        ELSE IF c.uncertain # <<>>
        THEN [triage_level |-> "ROUTINE",
              impression |-> Phrase.UNCERTAIN_prefix \o Phrase.Cannot_exclude_colon
                             \o Join(c.uncertain, Phrase.comma_space)]
        ELSE [triage_level |-> "NORMAL", impression |-> Phrase.NORMAL_impression]

\* the findings generate_report's first loop keeps: those whose threshold is enabled
EnabledFindings(fs, ai) ==
    SelectSeq(fs, LAMBDA f : get_threshold(ai, f.finding_name).enabled)

\* finding_names of generate_report: the names handed to the rewrite verifier
ReportFindingNames(fs, ai) ==
    LET en == EnabledFindings(fs, ai)
    IN  [i \in 1..Len(en) |-> en[i].finding_name]

\* findings_text of generate_report before any rewrite
TemplateFindingsText(fs, ai) ==
    LET en == EnabledFindings(fs, ai)
        findings_texts == [i \in 1..Len(en) |-> generate_finding_text(en[i])]
    IN  IF findings_texts # <<>>
        THEN Join(findings_texts, Phrase.space)
        ELSE Phrase.No_abnormalities_identified

\* impression_text of generate_report before any rewrite
TemplateImpressionText(fs, ai) == generate_impression(fs, ai).impression

\* template_report = f"FINDINGS:\n{findings_text}\n\nIMPRESSION:\n{impression_text}"
TemplateReport(fs, ai) ==
    Phrase.FINDINGS_header \o TemplateFindingsText(fs, ai)
    \o Phrase.IMPRESSION_header \o TemplateImpressionText(fs, ai)

\* a generator that keeps state between calls: it answers a repeated report
\* with the findings section left out
TemplateResult_Stateful(fs, ai) ==
    [findings_text |-> IF previous.report.findings_text = TemplateFindingsText(fs, ai)
                       THEN Phrase.comma_space ELSE TemplateFindingsText(fs, ai),
     impression_text |-> TemplateImpressionText(fs, ai),
     llm_rewritten |-> FALSE]

\* the ReportResult of generate_report when no rewrite replaced the text
TemplateResult(fs, ai) ==
    [findings_text |-> TemplateFindingsText(fs, ai),
     impression_text |-> TemplateImpressionText(fs, ai),
     llm_rewritten |-> FALSE]

-----------------------------------------------------------------------------
(* More Python str operations, used on the rewritten text *)

\* the index at which the first occurrence of pat in text starts, 0 if there is none
FirstIndex(text, pat) ==
    LET S == {i \in 1..(Len(text) - Len(pat) + 1) :
                 \A j \in 1..Len(pat) : text[i + j - 1] = pat[j]}
    IN  IF S = {} THEN 0 ELSE CHOOSE i \in S : \A k \in S : i <= k

\* text.split(sep) for a non-empty sep
RECURSIVE Split(_, _)
Split(text, sep) ==
    LET i == FirstIndex(text, sep)
    IN  IF i = 0 THEN <<text>>
        ELSE <<SubSeq(text, 1, i - 1)>>
             \o Split(SubSeq(text, i + Len(sep), Len(text)), sep)

\* text.replace(old, ""): every non-overlapping occurrence of old removed
Remove(text, old) == Concat(Split(text, old))

\* the characters str.strip() removes
Whitespace == {" ", "\n", "\t", "\r"}

\* text.strip()
RECURSIVE Strip(_)
Strip(text) ==
    IF text = <<>> THEN <<>>
    ELSE IF Head(text) \in Whitespace THEN Strip(Tail(text))
    ELSE IF text[Len(text)] \in Whitespace THEN Strip(SubSeq(text, 1, Len(text) - 1))
    ELSE text

-----------------------------------------------------------------------------
(* The rewrite collaborator and its safety verifier: LLMService *)

\* a provider is taken whenever active_provider names one
ProviderConfigured_AnyActive(llm) == llm.active_provider \in Providers

\* _init_provider: whether self.provider is set (the active provider is enabled)
ProviderConfigured(llm) ==
    /\ llm.active_provider \in Providers
    /\ llm.enabled[llm.active_provider]

\* is_available()
is_available(llm) == ProviderConfigured(llm) /\ llm.llm_rewrite_enabled

\* negation_patterns of _verify_no_new_findings for one term
negation_patterns(term) ==
    [n \in 1..Len(NegationPrefixes) |-> NegationPrefixes[n] \o term]

\* term_found_in_original: some original finding name contains term or is in it
TermFoundInOriginal(term, original_findings_lower) ==
    \E k \in 1..Len(original_findings_lower) :
        \/ Contains(original_findings_lower[k], term)
        \/ Contains(term, original_findings_lower[k])

\* is_negated taken from the negation words alone, whatever they negate
IsNegated_AnyNegation(term, rewritten_lower) ==
    \E n \in 1..Len(NegationPrefixes) : Contains(rewritten_lower, NegationPrefixes[n])

\* is_negated = any(neg in rewritten_lower for neg in negation_patterns)
IsNegated(term, rewritten_lower) ==
    \E n \in 1..Len(negation_patterns(term)) :
        Contains(rewritten_lower, negation_patterns(term)[n])

\* _verify_no_new_findings(rewritten_text, original_findings):
\* FALSE iff the loop returns False at some term
verify_no_new_findings(rewritten_text, original_findings) ==
    LET rewritten_lower == Lower(rewritten_text)
        original_findings_lower ==
            [k \in 1..Len(original_findings) |-> Lower(original_findings[k])]
    IN  \A t \in 1..Len(medical_terms) :
            (/\ Contains(rewritten_lower, medical_terms[t])
             /\ ~TermFoundInOriginal(medical_terms[t], original_findings_lower))
            => IsNegated(medical_terms[t], rewritten_lower)

\* what the awaited provider.rewrite_report(template_text) call can do
ProviderRaised == [raised |-> TRUE, text |-> <<>>]
ProviderText(text) == [raised |-> FALSE, text |-> text]

\* Python's None and a str, as rewrite_report returns them
None == [is_none |-> TRUE, text |-> <<>>]
Some(text) == [is_none |-> FALSE, text |-> text]

\* rewrite_report without its try/except: the provider's exception leaves it
rewrite_report_Unguarded(llm, outcome, original_findings) ==
    [exception |-> is_available(llm) /\ outcome.raised,
     value |-> IF ~is_available(llm) THEN None
               ELSE IF outcome.raised THEN None
               ELSE IF verify_no_new_findings(outcome.text, original_findings)
                    THEN Some(outcome.text)
                    ELSE None]

\* LLMService.rewrite_report(template_text, findings), given what the provider did:
\* `exception` is whether an exception leaves the method (its try/except catches
\* every Exception, so none does), `value` is what it returns
rewrite_report(llm, outcome, original_findings) ==
    [exception |-> FALSE,
     value |-> IF ~is_available(llm) THEN None
               ELSE IF outcome.raised THEN None
               ELSE IF verify_no_new_findings(outcome.text, original_findings)
                    THEN Some(outcome.text)
                    ELSE None]

\* every attempt marks the report rewritten
ReportAfterRewrite_FlagsAttempt(template, rewritten) ==
    [findings_text |-> IF rewritten.is_none THEN template.findings_text
                       ELSE rewritten.text,
     impression_text |-> template.impression_text,
     llm_rewritten |-> TRUE]

\* generate_report after the rewrite call returned `rewritten`
\* (`if rewritten:` is false for None and for the empty string)
ReportAfterRewrite(template, rewritten) ==
    IF rewritten.is_none \/ rewritten.text = <<>> THEN template
    ELSE IF Contains(rewritten.text, Phrase.FINDINGS)
            /\ Contains(rewritten.text, Phrase.IMPRESSION)
    THEN LET parts == Split(rewritten.text, Phrase.IMPRESSION)
         IN  [findings_text |-> Strip(Remove(parts[1], Phrase.FINDINGS)),
              impression_text |-> IF Len(parts) > 1 THEN Strip(parts[2])
                                  ELSE template.impression_text,
              llm_rewritten |-> TRUE]
    ELSE [findings_text |-> rewritten.text,
          impression_text |-> template.impression_text,
          llm_rewritten |-> TRUE]

-----------------------------------------------------------------------------
(* Detection post-processing: inference/app/detector.py *)

\* the reciprocal of the 1e-8 added to the union in non_max_suppression
EpsInv == 100000000

\* areas = (x2 - x1) * (y2 - y1)
Area(b) == (b.x2 - b.x1) * (b.y2 - b.y1)

Max(a, b) == IF a >= b THEN a ELSE b
Min(a, b) == IF a <= b THEN a ELSE b

\* intersection = w * h of non_max_suppression
Intersection(a, b) ==
    LET w == Max(0, Min(a.x2, b.x2) - Max(a.x1, b.x1))
        h == Max(0, Min(a.y2, b.y2) - Max(a.y1, b.y1))
    IN  w * h

\* union = areas[i] + areas[order[1:]] - intersection
Union(a, b) == Area(a) + Area(b) - Intersection(a, b)

\* the comparison with < for <=: a box at exactly the threshold is suppressed
IouLeq_Strict(a, b, thr) ==
    Intersection(a, b) * thr[2] - thr[1] * Union(a, b) < thr[1] \div EpsInv

\* iou <= iou_threshold, for iou = intersection / (union + 1e-8) and the threshold
\* thr[1] / thr[2] (thr[2] > 0):
\*   intersection * thr[2] <= thr[1] * (union + 1/EpsInv),
\* which for integers is  intersection * thr[2] - thr[1] * union <= thr[1] \div EpsInv
IouLeq(a, b, thr) ==
    Intersection(a, b) * thr[2] - thr[1] * Union(a, b) <= thr[1] \div EpsInv

\* the index orders scores.argsort()[::-1] may give: the scores are non-increasing
\* along the order; how equal scores are ordered is left to the sort
DescendingOrders(scores) ==
    {o \in [1..Len(scores) -> 1..Len(scores)] :
        /\ \A i, j \in 1..Len(scores) : i # j => o[i] # o[j]
        /\ \A i \in 1..(Len(scores) - 1) : scores[o[i]] >= scores[o[i + 1]]}

\* the while loop of non_max_suppression, from the given order
RECURSIVE SuppressLoop(_, _, _)
SuppressLoop(boxes, order, thr) ==
    IF Len(order) = 0 THEN <<>>
    ELSE IF Len(order) = 1 THEN <<order[1]>>
    ELSE <<order[1]>>
         \o SuppressLoop(boxes,
                         SelectSeq(Tail(order),
                                   LAMBDA j : IouLeq(boxes[order[1]], boxes[j], thr)),
                         thr)

\* a suppression that keeps every box, in the sorted order
non_max_suppression_KeepAll(boxes, order, thr) == order

\* non_max_suppression(boxes, scores, iou_threshold), for the order argsort gave
non_max_suppression(boxes, order, thr) ==
    IF Len(boxes) = 0 THEN <<>> ELSE SuppressLoop(boxes, order, thr)

\* DETECTOR_CLASS_MAPPING, and "unknown" for a class id outside it
ClassName(label) ==
    CASE label - 1 = 0 -> "nodule"
      [] label - 1 = 1 -> "mass"
      [] label - 1 = 2 -> "pleural_effusion"
      [] label - 1 = 3 -> "pneumothorax"
      [] label - 1 = 4 -> "consolidation"
      [] label - 1 = 5 -> "cardiomegaly"
      [] OTHER -> "unknown"

\* input_size = 512, the detector's resize target
InputSize == 512

\* an entry whose pixel coordinates are rounded to the nearest integer
DetectionOf_Rounded(c, original_size) ==
    [name |-> ClassName(c.label),
     confidence |-> c.score,
     box |-> c.box,
     x_min |-> <<c.box.x1, InputSize>>,
     y_min |-> <<c.box.y1, InputSize>>,
     x_max |-> <<c.box.x2, InputSize>>,
     y_max |-> <<c.box.y2, InputSize>>,
     x_min_px |-> (2 * c.box.x1 * original_size[1] + InputSize) \div (2 * InputSize),
     y_min_px |-> (2 * c.box.y1 * original_size[2] + InputSize) \div (2 * InputSize),
     x_max_px |-> (2 * c.box.x2 * original_size[1] + InputSize) \div (2 * InputSize),
     y_max_px |-> (2 * c.box.y2 * original_size[2] + InputSize) \div (2 * InputSize)]

\* one entry of predict's results: the normalized coordinate x / input_size is
\* kept as the pair <<x, input_size>>; int() truncates the pixel coordinate
DetectionOf(c, original_size) ==
    [name |-> ClassName(c.label),
     confidence |-> c.score,
     box |-> c.box,
     x_min |-> <<c.box.x1, InputSize>>,
     y_min |-> <<c.box.y1, InputSize>>,
     x_max |-> <<c.box.x2, InputSize>>,
     y_max |-> <<c.box.y2, InputSize>>,
     x_min_px |-> (c.box.x1 * original_size[1]) \div InputSize,
     y_min_px |-> (c.box.y1 * original_size[2]) \div InputSize,
     x_max_px |-> (c.box.x2 * original_size[1]) \div InputSize,
     y_max_px |-> (c.box.y2 * original_size[2]) \div InputSize]

\* mask = scores >= conf_threshold: the candidates predict keeps, in model order
ConfidenceFilter(cands, conf_threshold) ==
    SelectSeq(cands, LAMBDA c : c.score >= conf_threshold)

\* the sequence s restricted to the indices idx, in idx's order (numpy s[idx])
Take(s, idx) == [k \in 1..Len(idx) |-> s[idx[k]]]

\* predict without the cut to max_boxes
predict_Uncut(req, order, top) ==
    LET filtered == ConfidenceFilter(req.candidates, req.conf_threshold)
        boxes == [k \in 1..Len(filtered) |-> filtered[k].box]
        kept == Take(filtered, non_max_suppression(boxes, order, req.iou_threshold))
    IN  IF Len(filtered) = 0 THEN <<>>
        ELSE [k \in 1..Len(kept) |-> DetectionOf(kept[k], req.original_size)]

\* CXRDetector.predict after the model ran: req holds the model's output and the
\* call's parameters; order and top are what the two argsorts gave
predict(req, order, top) ==
    LET filtered == ConfidenceFilter(req.candidates, req.conf_threshold)
        boxes == [k \in 1..Len(filtered) |-> filtered[k].box]
        kept == Take(filtered, non_max_suppression(boxes, order, req.iou_threshold))
        limited == IF Len(kept) > req.max_boxes
                   THEN Take(kept, SubSeq(top, 1, req.max_boxes))
                   ELSE kept
    IN  IF Len(filtered) = 0 THEN <<>>
        ELSE [k \in 1..Len(limited) |-> DetectionOf(limited[k], req.original_size)]

\* the scores of a candidate list
Scores(cands) == [k \in 1..Len(cands) |-> cands[k].score]

\* the orders the first argsort may give for a request
NmsOrders(req) ==
    DescendingOrders(Scores(ConfidenceFilter(req.candidates, req.conf_threshold)))

\* the orders the second argsort may give, over the boxes suppression kept
TopOrders(req, order) ==
    LET filtered == ConfidenceFilter(req.candidates, req.conf_threshold)
        boxes == [k \in 1..Len(filtered) |-> filtered[k].box]
    IN  DescendingOrders(Scores(Take(filtered,
            non_max_suppression(boxes, order, req.iou_threshold))))


-----------------------------------------------------------------------------
(* Calibration in the classifier of the inference service                  *)
(*                                                                         *)
(* A probability of the classifier is an exact fraction [n, d] in lowest   *)
(* terms (floating-point rounding is not modelled). Temperature scaling    *)
(* takes a logarithm, divides it and applies the sigmoid: a logit is kept  *)
(* as log(odds)/over, and the sigmoid of it is the fraction                *)
(* odds^(1/over) / (1 + odds^(1/over)) when that power is a fraction, and  *)
(* otherwise the record of the odds and the divisor, a number that is no   *)
(* fraction.                                                               *)

RECURSIVE GCD(_, _)
GCD(a, b) == IF b = 0 THEN a ELSE GCD(b, a % b)

\* the fraction n/d in lowest terms
Frac(n, d) == [n |-> n \div GCD(n, d), d |-> d \div GCD(n, d)]

FracLeq(x, y) == x.n * y.d <= y.n * x.d
FracMul(x, y) == Frac(x.n * y.n, x.d * y.d)

\* a + t * (b - a) for t = tn/td
FracLerp(a, b, tn, td) ==
    Frac(a.n * b.d * td + tn * (b.n * a.d - a.n * b.d), a.d * b.d * td)

\* the 1e-8 of the logit in predict, as its inverse
LogitEpsInv == 100000000

\* logit = np.log(raw_prob / (1 - raw_prob + 1e-8))
Logit(raw_prob) ==
    [odds |-> Frac(raw_prob.n * LogitEpsInv,
                   (raw_prob.d - raw_prob.n) * LogitEpsInv + raw_prob.d),
     over |-> Frac(1, 1)]

\* TemperatureScaling.calibrate(logits): logits / self.temperature
TemperatureScaling_calibrate(temperature, logits) ==
    [logits EXCEPT !.over = FracMul(@, temperature)]

RECURSIVE Pow(_, _)
Pow(x, k) == IF k = 0 THEN 1 ELSE x * Pow(x, k - 1)

\* the integer r >= from with r^k = x, or -1 if there is none
RECURSIVE IntRoot(_, _, _)
IntRoot(from, x, k) ==
    IF Pow(from, k) = x THEN from
    ELSE IF Pow(from, k) > x THEN -1
    ELSE IntRoot(from + 1, x, k)

\* 1 / (1 + np.exp(-calibrated_logit)); log(0) is -inf, whose sigmoid is 0
Sigmoid(logit) ==
    LET o == logit.odds
        rn == IntRoot(0, o.n, logit.over.n)
        rd == IntRoot(0, o.d, logit.over.n)
    IN  IF o.n = 0 THEN Frac(0, 1)
        ELSE IF logit.over.n = 1
        THEN Frac(Pow(o.n, logit.over.d), Pow(o.n, logit.over.d) + Pow(o.d, logit.over.d))
        ELSE IF rn >= 0 /\ rd >= 0
        THEN Frac(Pow(rn, logit.over.d), Pow(rn, logit.over.d) + Pow(rd, logit.over.d))
        ELSE logit

\* the points are used in the order supplied
SortedByRaw_AsSupplied(points) == points

\* sorted(points, key=lambda x: x[0]): stable, by the raw value
RECURSIVE SortedByRaw(_)
SortedByRaw(points) ==
    IF points = <<>> THEN <<>>
    ELSE LET rest == SortedByRaw(SubSeq(points, 1, Len(points) - 1))
             last == points[Len(points)]
         IN  SelectSeq(rest, LAMBDA q : FracLeq(q.raw, last.raw)) \o <<last>>
             \o SelectSeq(rest, LAMBDA q : ~FracLeq(q.raw, last.raw))

\* a loop that tests points[i][0] < probability < points[i+1][0]
BracketIndex_Strict(points, probability) ==
    LET S == {i \in 1..(Len(points) - 1) :
                 ~FracLeq(probability, points[i].raw)
                 /\ ~FracLeq(points[i + 1].raw, probability)}
    IN  IF S = {} THEN 0 ELSE CHOOSE i \in S : \A j \in S : i <= j

\* the first i of the for loop with points[i][0] <= probability <= points[i+1][0],
\* 0 if the loop ends without one
BracketIndex(points, probability) ==
    LET S == {i \in 1..(Len(points) - 1) :
                 FracLeq(points[i].raw, probability)
                 /\ FracLeq(probability, points[i + 1].raw)}
    IN  IF S = {} THEN 0 ELSE CHOOSE i \in S : \A j \in S : i <= j

\* IsotonicCalibrator.calibrate(finding, probability); the division of the
\* interpolation raises ZeroDivisionError when the two raw values are equal
IsotonicCalibrator_calibrate(calibration_map, finding, probability) ==
    IF finding \notin DOMAIN calibration_map
    THEN [raised |-> FALSE, value |-> probability]
    ELSE IF calibration_map[finding] = <<>>
    THEN [raised |-> FALSE, value |-> probability]
    ELSE LET points == SortedByRaw(calibration_map[finding])
             i == BracketIndex(points, probability)
         IN  IF FracLeq(probability, points[1].raw)
             THEN [raised |-> FALSE, value |-> points[1].cal]
             ELSE IF FracLeq(points[Len(points)].raw, probability)
             THEN [raised |-> FALSE, value |-> points[Len(points)].cal]
             ELSE IF i = 0 THEN [raised |-> FALSE, value |-> probability]
             ELSE IF points[i + 1].raw = points[i].raw
             THEN [raised |-> TRUE, value |-> probability]
             ELSE [raised |-> FALSE,
                   value |-> FracLerp(points[i].cal, points[i + 1].cal,
                                      probability.n * points[i].raw.d * points[i + 1].raw.d
                                      - points[i].raw.n * probability.d * points[i + 1].raw.d,
                                      probability.d
                                      * (points[i + 1].raw.n * points[i].raw.d
                                         - points[i].raw.n * points[i + 1].raw.d))]

\* FINDING_MAPPING: the finding each pathology of the model is reported as
FINDING_MAPPING ==
    [Pneumothorax |-> Str_pneumothorax, Effusion |-> Str_pleural_effusion,
     Consolidation |-> Str_consolidation, Atelectasis |-> Str_consolidation,
     Cardiomegaly |-> Str_cardiomegaly, Edema |-> Str_edema,
     Nodule |-> Str_nodule, Mass |-> Str_mass]

\* self.calibrator: None, a TemperatureScaling or an IsotonicCalibrator
NoCalibrator == [kind |-> "none"]
TemperatureScaling(temperature) == [kind |-> "temperature", temperature |-> temperature]
IsotonicCalibrator(calibration_map) == [kind |-> "isotonic", calibration_map |-> calibration_map]

\* the temperature of the default calibrator, 1.2
DefaultTemperature == Frac(6, 5)

\* the calibration file: absent, unreadable, or the parsed JSON object
NoFile == [exists |-> FALSE]
BadFile == [exists |-> TRUE, readable |-> FALSE]
CalFile(data) == [exists |-> TRUE, readable |-> TRUE, data |-> data]

\* a file without a strategy also gets the default calibrator
load_calibration_DefaultWithoutStrategy(file) ==
    IF file.exists /\ file.readable /\ "temperature" \in DOMAIN file.data
    THEN TemperatureScaling(file.data.temperature)
    ELSE IF file.exists /\ file.readable /\ "isotonic" \in DOMAIN file.data
    THEN IsotonicCalibrator(file.data.isotonic)
    ELSE TemperatureScaling(DefaultTemperature)

\* _load_calibration on a new classifier (calibrator None) for the file found
load_calibration(file) ==
    IF file.exists
    THEN IF ~file.readable THEN NoCalibrator
         ELSE IF "temperature" \in DOMAIN file.data
         THEN TemperatureScaling(file.data.temperature)
         ELSE IF "isotonic" \in DOMAIN file.data
         THEN IsotonicCalibrator(file.data.isotonic)
         ELSE NoCalibrator
    ELSE TemperatureScaling(DefaultTemperature)

\* the calibration step of predict's loop for one pathology:
\* [raised, value], raised when the isotonic interpolation divides by zero
Calibrated(calibrator, calibrate, finding_name, raw_prob) ==
    IF calibrate /\ calibrator.kind # "none"
    THEN IF calibrator.kind = "temperature"
         THEN [raised |-> FALSE,
               value |-> Sigmoid(TemperatureScaling_calibrate(calibrator.temperature,
                                                              Logit(raw_prob)))]
         ELSE IsotonicCalibrator_calibrate(calibrator.calibration_map,
                                           finding_name, raw_prob)
    ELSE [raised |-> FALSE, value |-> raw_prob]

\* the position of finding_name in results, 0 if it is not a key
ResultIndex(results, finding_name) ==
    LET S == {k \in 1..Len(results) : results[k].name = finding_name}
    IN  IF S = {} THEN 0 ELSE CHOOSE k \in S : TRUE

\* predict's loop over the pathologies from position i on: results is the dict
\* built so far, in insertion order; a larger raw probability of another
\* pathology of the same finding replaces the entry
RECURSIVE PredictLoop(_, _, _, _, _, _)
PredictLoop(pathologies, probs, calibrator, calibrate, i, results) ==
    IF i > Len(pathologies) THEN [raised |-> FALSE, results |-> results]
    ELSE IF pathologies[i] \notin DOMAIN FINDING_MAPPING
    THEN PredictLoop(pathologies, probs, calibrator, calibrate, i + 1, results)
    ELSE LET finding_name == FINDING_MAPPING[pathologies[i]]
             raw_prob == probs[i]
             c == Calibrated(calibrator, calibrate, finding_name, raw_prob)
             entry == [name |-> finding_name, probability |-> raw_prob,
                       calibrated_probability |-> c.value]
             k == ResultIndex(results, finding_name)
         IN  IF c.raised THEN [raised |-> TRUE, results |-> <<>>]
             ELSE PredictLoop(pathologies, probs, calibrator, calibrate, i + 1,
                     IF k = 0 THEN Append(results, entry)
                     ELSE IF ~FracLeq(raw_prob, results[k].probability)
                     THEN [results EXCEPT ![k] = entry]
                     ELSE results)

\* CXRClassifier.predict(image, calibrate) on a loaded classifier whose model
\* puts out probs for its pathologies
classifier_predict(pathologies, probs, calibrator, calibrate) ==
    PredictLoop(pathologies, probs, calibrator, calibrate, 1, <<>>)

\* no predict call in hand, and its empty outcome
NoCall == [probs |-> <<>>, calibrate |-> FALSE]
NoResults == [raised |-> FALSE, results |-> <<>>]

-----------------------------------------------------------------------------
(* The endpoints of the inference service                                  *)
(*                                                                         *)
(* analyze_image and reload_models are coroutines of one event loop: a     *)
(* coroutine runs alone from where it starts or resumes to its next await  *)
(* or its return. analyze_image awaits once, at file.read(); load_models   *)
(* and reload_models never await. The synchronous code between two awaits  *)
(* is modelled in several steps, which the event loop cannot interleave    *)
(* with the steps of another coroutine.                                    *)

\* a global model handle: None, or an object and its `loaded` attribute
NoHandle == [present |-> FALSE, loaded |-> FALSE]
NewHandle == [present |-> TRUE, loaded |-> FALSE]
LoadedHandle == [present |-> TRUE, loaded |-> TRUE]

\* the request number of the lifespan's startup call of load_models
Startup == 0

\* handlers declared `def` would run in the server's thread pool, each as soon
\* as it arrives
CanRun_ThreadPool(running) == running \subseteq running

\* the handlers are declared `async def`: each runs on the event loop, which
\* starts or resumes a coroutine only when no other coroutine is running
CanRun(running) == running = {}

\* `if classifier and classifier.loaded`, `if detector and detector.loaded`
Usable(handle) == handle.present /\ handle.loaded

\* a request of the service: its endpoint, the HTTP status of its answer (0:
\* none yet), the lists of the AnalysisResponse, and what became of each
\* model's run
NoResponse ==
    [endpoint |-> "none", status |-> 0, findings |-> <<>>, bounding_boxes |-> <<>>,
     classifier_run |-> "not run", detector_run |-> "not run"]

\* a classifier block whose handler keeps what predict had produced
ClassifierBlock_KeepsResults(handle, raises, classifier_results) ==
    IF ~Usable(handle) THEN [run |-> "absent", findings |-> <<>>]
    ELSE IF raises THEN [run |-> "raised", findings |-> classifier_results]
    ELSE [run |-> "returned", findings |-> classifier_results]

\* the classifier block of analyze_image: predict is called on a usable
\* classifier only; `except Exception` leaves findings empty
ClassifierBlock(handle, raises, classifier_results) ==
    IF ~Usable(handle) THEN [run |-> "absent", findings |-> <<>>]
    ELSE IF raises THEN [run |-> "raised", findings |-> <<>>]
    ELSE [run |-> "returned", findings |-> classifier_results]

\* the detector block of analyze_image
DetectorBlock(handle, raises, detector_results) ==
    IF ~Usable(handle) THEN [run |-> "absent", bounding_boxes |-> <<>>]
    ELSE IF raises THEN [run |-> "raised", bounding_boxes |-> <<>>]
    ELSE [run |-> "returned", bounding_boxes |-> detector_results]

-----------------------------------------------------------------------------
(* The worker: worker/app/tasks.py *)

\* @celery_app.task(bind=True, max_retries=3)
MaxRetries == 3

\* the settings dict of a task with the thresholds of the backend's AISettings
\* under "thresholds"
SettingsDict(ai) ==
    [thresholds |->
        [name \in DOMAIN ai.thresholds |->
            [triage_threshold |-> ai.thresholds[name].triage_threshold,
             strong_threshold |-> ai.thresholds[name].strong_threshold]],
     calibration_enabled |-> ai.calibration_enabled]

\* thresholds.get("triage_threshold", 0.3), thresholds.get("strong_threshold", 0.7)
\* of an empty dict
TaskThresholdDefault == [triage_threshold |-> 30, strong_threshold |-> 70]

\* determine_status(finding, settings) of tasks.py: the key
\* "calibrated_probability" is in every finding of the inference response
determine_status(finding, settings) ==
    LET prob == finding.calibrated_probability
        finding_name == Lower(finding.name)
        thresholds == IF finding_name \in DOMAIN settings.thresholds
                      THEN settings.thresholds[finding_name]
                      ELSE TaskThresholdDefault
    IN  IF prob >= thresholds.strong_threshold THEN "POSITIVE"
        ELSE IF prob >= thresholds.triage_threshold THEN "POSSIBLE"
        ELSE IF 10 * prob >= 7 * thresholds.triage_threshold THEN "UNCERTAIN"
        ELSE "NEG"

\* the names of the findings whose status is in statuses, in the list's order
NamesWithStatus(fs, settings, statuses) ==
    LET sel == SelectSeq(fs, LAMBDA f : determine_status(f, settings) \in statuses)
    IN  [i \in 1..Len(sel) |-> sel[i].name]

\* determine_triage(findings, settings) of tasks.py; its reason strings are
\* "High confidence {f} detected", "Possible {f} detected" and
\* "No significant abnormalities detected"
tasks_determine_triage(fs, settings) ==
    LET urgent_findings == NamesWithStatus(fs, settings, {"POSITIVE"})
        routine_findings == NamesWithStatus(fs, settings, {"POSSIBLE", "UNCERTAIN"})
    IN  IF urgent_findings # <<>>
        THEN [level |-> "URGENT",
              reasons |-> [i \in 1..Len(urgent_findings) |->
                              ReasonUrgent(urgent_findings[i])]]
        ELSE IF routine_findings # <<>>
        THEN [level |-> "ROUTINE",
              reasons |-> [i \in 1..Len(routine_findings) |->
                              ReasonRoutine(routine_findings[i])]]
        ELSE [level |-> "NORMAL", reasons |-> <<Phrase.No_abnormalities_detected>>]

\* the Finding rows analyze_study adds for the inference result
TaskFindings(result, settings) ==
    [i \in 1..Len(result) |->
        [finding_name |-> result[i].name,
         probability |-> result[i].probability,
         calibrated_probability |-> result[i].calibrated_probability,
         status |-> determine_status(result[i], settings)]]
-----------------------------------------------------------------------------
(* Bounds and input domains *)

\* the longest inference response (number of raw findings) of the triage runs
MaxFindings == 2

\* the most extra phrases a provider's answer carries after its first one
MaxExtraPhrases == 1

\* the most candidate boxes the detector model puts out
MaxCandidates == 3

\* the most control points of an isotonic list
MaxPoints == 2

\* the most requests the inference service has in hand at a time
MaxRequests == 2

\* the most control points of a list given to the isotonic calibrator alone
MaxListed == 4

\* the most studies uploaded with async_mode
MaxStudies == 2

\* every sequence over S of length at most n
SeqsUpTo(S, n) == UNION {[1..k -> S] : k \in 0..n}

\* (raw, calibrated) probability pairs of a raw finding, in percent: on and
\* between the thresholds, and pairs whose calibrated value differs from the raw
\* one or is 0. parse_findings reads "probability" and "calibrated_probability"
\* as separate fields of the inference service's HTTP response, whatever
\* calibration_enabled is.
ProbPairs ==
    {<<80, 80>>, <<70, 70>>, <<50, 50>>, <<30, 30>>, <<21, 21>>, <<10, 10>>,
     <<0, 0>>, <<80, 50>>, <<80, 0>>}

\* one entry of the inference response's "findings" (inference FindingResult)
RawFinding(name, p) ==
    [name |-> name, probability |-> p[1], calibrated_probability |-> p[2]]

\* the finding names of the triage runs
TriageNames == {Str_mass, Str_pleural_effusion}

\* the inference responses of the triage runs
TriageResponses ==
    SeqsUpTo({RawFinding(n, p) : n \in TriageNames, p \in ProbPairs}, MaxFindings)

\* AISettings with the given thresholds for mass and pleural_effusion
AISettingsWith(mass, pleural_effusion, calibration_enabled) ==
    [thresholds |-> (Str_mass :> mass) @@ (Str_pleural_effusion :> pleural_effusion)
                    @@ DefaultThresholds,
     calibration_enabled |-> calibration_enabled]

\* the AISettings a PUT /v1/settings may store: nothing validates the thresholds,
\* so triage_threshold >= strong_threshold is among them
AISettingsUpdates ==
    {AISettingsWith(FindingThreshold(25, 60, TRUE), FindingThreshold(30, 70, TRUE), FALSE),
     AISettingsWith(FindingThreshold(25, 60, FALSE), FindingThreshold(30, 70, TRUE), TRUE),
     AISettingsWith(FindingThreshold(25, 60, FALSE), FindingThreshold(30, 70, TRUE), FALSE),
     AISettingsWith(FindingThreshold(25, 60, TRUE), FindingThreshold(70, 30, TRUE), TRUE)}

\* the LLMSettings a PUT /v1/settings may store
LLMSettingsUpdates ==
    {[active_provider |-> a,
      enabled |-> [p \in Providers |-> p = on],
      llm_rewrite_enabled |-> r] :
        a \in Providers \cup {"none"}, on \in {"claude", "none"}, r \in BOOLEAN}

\* the inference responses of the report runs
ReportResponses ==
    {<<>>,
     <<RawFinding(Str_mass, <<80, 80>>)>>,
     <<RawFinding(Str_mass, <<10, 10>>)>>,
     <<RawFinding(Str_edema, <<50, 50>>)>>,
     <<RawFinding(Str_pleural_effusion, <<80, 80>>)>>,
     <<RawFinding(Str_mass, <<80, 80>>), RawFinding(Str_edema, <<25, 25>>)>>}

\* how the provider's sentence starts
\* 'The lungs show '
SentenceStart ==
    <<"T","h","e"," ","l","u","n","g","s"," ","s","h","o","w"," ">>

\* the phrases a provider's answer may carry after its first one
ExtraPhrases ==
    {
      \* ' and Mass'
      <<" ","a","n","d"," ","M","a","s","s">>,
      \* '; no mass'
      <<";"," ","n","o"," ","m","a","s","s">>,
      \* ' without edema'
      <<" ","w","i","t","h","o","u","t"," ","e","d","e","m","a">>
    }


\* the section bodies of a provider's answer that is laid out in sections
SectionBodies ==
    [
      \* ' Clear lungs.\n'
      clear |->
        <<" ","C","l","e","a","r"," ","l","u","n","g","s",".","\n">>,
      \* ' Stable. '
      stable |->
        <<" ","S","t","a","b","l","e","."," ">>,
      \* '\nFollow up.'
      follow |->
        <<"\n","F","o","l","l","o","w"," ","u","p",".">>
    ]

\* the prefixes of the first phrase: none, or one of the negation phrases
PhrasePrefixes ==
    {<<>>} \cup {NegationPrefixes[n] : n \in 1..Len(NegationPrefixes)}

\* answers laid out in sections: both markers once, a second "IMPRESSION:"
\* section, the sections in the other order, and one marker only
SectionedTexts ==
    LET F == Phrase.FINDINGS
        I == Phrase.IMPRESSION
        B == SectionBodies
    IN  {F \o B.clear \o I \o B.stable,
         F \o B.clear \o I \o B.stable \o I \o B.follow,
         I \o B.stable \o F \o B.clear,
         B.clear \o I \o B.stable}

\* the texts the provider may answer with: the template itself, nothing, an
\* answer in sections, or a sentence naming a vocabulary term, negated or not,
\* followed by extra phrases
ProviderTexts(template_report) ==
    {template_report, <<>>}
    \cup SectionedTexts
    \cup {SentenceStart \o pre \o medical_terms[t] \o Concat(extra) :
            pre \in PhrasePrefixes, t \in 1..Len(medical_terms),
            extra \in SeqsUpTo(ExtraPhrases, MaxExtraPhrases)}


\* candidate boxes in model-input space: B lies inside A, C overlaps both
BoxA == [x1 |-> 0, y1 |-> 0, x2 |-> 2, y2 |-> 1]
BoxB == [x1 |-> 1, y1 |-> 0, x2 |-> 2, y2 |-> 1]
BoxC == [x1 |-> 1, y1 |-> 0, x2 |-> 3, y2 |-> 1]

\* the candidates the detector model may put out: a box, its class label
\* (0 is background, 7 is outside DETECTOR_CLASS_MAPPING) and its score in percent
Candidate(box, label, score) == [box |-> box, label |-> label, score |-> score]

Candidates ==
    {Candidate(BoxA, 2, 60), Candidate(BoxA, 2, 90),
     Candidate(BoxB, 1, 20), Candidate(BoxB, 1, 25), Candidate(BoxB, 1, 60),
     Candidate(BoxC, 7, 20), Candidate(BoxC, 7, 25), Candidate(BoxC, 7, 90)}

\* the predict calls: the model's output, the parameters analyze_image passes
\* (confidence 0.25; IoU threshold 0.45 or 0.5, as a fraction; max_boxes, a
\* count, 0 to 2) and the image size
DetectorRequests ==
    {[candidates |-> c, conf_threshold |-> 25, iou_threshold |-> t,
      max_boxes |-> m, original_size |-> <<300, 200>>] :
        c \in SeqsUpTo(Candidates, MaxCandidates),
        t \in {<<9, 20>>, <<1, 2>>},
        m \in {0, 1, 2}}

\* the pathologies of the model's output, in its order, of which two are
\* reported as the same finding and one is not reported
Pathologies == <<"Atelectasis", "Consolidation", "Mass", "Hernia">>

\* the raw probabilities the model may put out
RawProbs == {Frac(0, 1), Frac(1, 4), Frac(1, 2), Frac(1, 1)}

\* the outputs of the model: a probability for each pathology
ModelOutputs == [1..Len(Pathologies) -> RawProbs]

\* control points (raw, calibrated) of an isotonic map: two of the same raw
\* value, and calibrated values that fall as the raw value rises
ControlPoints ==
    {[raw |-> Frac(1, 4), cal |-> Frac(0, 1)],
     [raw |-> Frac(1, 4), cal |-> Frac(1, 2)],
     [raw |-> Frac(3, 4), cal |-> Frac(1, 1)],
     [raw |-> Frac(3, 4), cal |-> Frac(1, 4)]}

\* the isotonic maps of a calibration file: one list for consolidation, in any
\* order and empty too, or a list for mass only
CalibrationMaps ==
    {Str_consolidation :> points : points \in SeqsUpTo(ControlPoints, MaxPoints)}
    \cup {Str_mass :> <<[raw |-> Frac(1, 4), cal |-> Frac(1, 2)]>>}

\* what _load_calibration may find: no file, a file json.load fails on, a file
\* with neither strategy, with a temperature, with an isotonic map, with both
CalibrationFiles ==
    {NoFile, BadFile, CalFile([version |-> 1])}
    \cup {CalFile([temperature |-> t]) : t \in {Frac(1, 1), Frac(6, 5)}}
    \cup {CalFile([isotonic |-> m]) : m \in CalibrationMaps}
    \cup {CalFile([temperature |-> Frac(1, 1),
                   isotonic |-> Str_mass :> <<[raw |-> Frac(1, 4), cal |-> Frac(1, 2)]>>])}

\* the requests to the inference service; request 0 is the startup
Requests == Startup..MaxRequests

\* what the classifier and the detector of the service return when they
\* return: findings in the backend's percent, boxes by name
ServiceFindings ==
    {<<RawFinding(Str_mass, <<80, 80>>)>>,
     <<RawFinding(Str_edema, <<21, 21>>), RawFinding(Str_mass, <<10, 10>>)>>}

ServiceBoxes == {<<>>, <<[name |-> Str_nodule, confidence |-> 60]>>}

\* the control points and the queries of the isotonic runs: three raw values,
\* each with two calibrated values, and queries on and between them
ListedPoints ==
    {[raw |-> Frac(r, 4), cal |-> Frac(c, 1)] : r \in 1..3, c \in {0, 1}}

Queries == {Frac(q, 8) : q \in {0, 2, 3, 4, 5, 6, 8}}

\* the inference responses of the worker runs: one finding of each status
\* (mass has the thresholds 0.25 and 0.6), one whose calibrated probability
\* differs from the raw one, and two findings of different status
WorkerResponses ==
    {<<>>,
     <<RawFinding(Str_mass, <<80, 80>>)>>,
     <<RawFinding(Str_mass, <<30, 30>>)>>,
     <<RawFinding(Str_mass, <<21, 21>>)>>,
     <<RawFinding(Str_mass, <<10, 10>>)>>,
     <<RawFinding(Str_mass, <<80, 50>>)>>,
     <<RawFinding(Str_mass, <<30, 30>>), RawFinding(Str_pleural_effusion, <<21, 21>>)>>}

\* the ids of the studies of the asynchronous runs
Studies == 1..MaxStudies

NoRequest ==
    [candidates |-> <<>>, conf_threshold |-> 0, iou_threshold |-> <<0, 1>>,
     max_boxes |-> 0, original_size |-> <<0, 0>>]

-----------------------------------------------------------------------------
(* The analyze_cxr request (synchronous path) and the settings endpoint *)

NoReport == [findings_text |-> <<>>, impression_text |-> <<>>, llm_rewritten |-> FALSE]
NoTriage == [level |-> "NONE", reasons |-> <<>>]
NoOutcome == [raised |-> FALSE, text |-> <<>>]

\* no report has been answered yet
NoPrevious == [findings |-> <<>>, ai_settings |-> DefaultAISettings, report |-> NoReport]

\* the worker is idle
NoTask == [study |-> 0, settings |-> <<>>, retries |-> 0]

\* no Study row of that id
NoStudy ==
    [status |-> "none", findings |-> <<>>, triage_level |-> "NONE", triage_reasons |-> <<>>]

\* the request states in which generate_report has returned
FinalStates ==
    {"REWRITE_SKIPPED", "REWRITE_ACCEPTED", "REWRITE_REJECTED", "REWRITE_EMPTY",
     "REWRITE_FAILED"}

\* the state after construction: default settings, no request, no predict call
Init ==
    /\ ai_settings = DefaultAISettings
    /\ llm_settings = DefaultLLMSettings
    /\ response = <<>>
    /\ findings = <<>>
    /\ report = NoReport
    /\ provider_out = NoOutcome
    /\ triage = NoTriage
    /\ rstate = "IDLE"
    /\ det_state = "idle"
    /\ det_request = NoRequest
    /\ det_keep = <<>>
    /\ det_result = <<>>
    /\ cls_file = NoFile
    /\ cls_calibrator = NoCalibrator
    /\ cls_loaded = FALSE
    /\ cls_state = "idle"
    /\ cls_call = NoCall
    /\ cls_out = NoResults
    /\ svc_classifier = NoHandle
    /\ svc_detector = NoHandle
    /\ svc_models_loaded = FALSE
    /\ svc_pc = [r \in Requests |-> "none"]
    /\ svc_running = {}
    /\ svc_resp = [r \in Requests |-> NoResponse]
    /\ previous = NoPrevious
    /\ study_table = [s \in Studies |-> NoStudy]
    /\ broker = {}
    /\ worker = NoTask

\* PUT /v1/settings with update.ai: the stored AISettings are replaced as given.
\* A request reads the settings once, when it starts, so an update is taken
\* between requests.
UpdateAISettings(update) ==
    /\ rstate = "IDLE"
    /\ ai_settings' = update
    /\ UNCHANGED <<llm_settings, response, findings, report, provider_out, triage, rstate>>
    /\ UNCHANGED <<inference_vars, study_vars>>

\* PUT /v1/settings with update.llm
UpdateLLMSettings(update) ==
    /\ rstate = "IDLE"
    /\ llm_settings' = update
    /\ UNCHANGED <<ai_settings, response, findings, report, provider_out, triage, rstate>>
    /\ UNCHANGED <<inference_vars, study_vars>>

\* analyze_cxr up to the rewrite decision: the inference response is parsed and
\* generate_report builds the template text
AnalyzeCxr(resp) ==
    /\ rstate = "IDLE"
    /\ response' = resp
    /\ findings' = parse_findings(resp, ai_settings)
    /\ report' = TemplateResult(findings', ai_settings)
    /\ rstate' = "TEMPLATE_GENERATED"
    /\ UNCHANGED <<ai_settings, llm_settings, provider_out, triage>>
    /\ UNCHANGED <<inference_vars, study_vars>>

\* generate_report's return and determine_triage, which analyze_cxr calls next
Complete(final_report, final_state) ==
    /\ report' = final_report
    /\ triage' = determine_triage(findings, ai_settings)
    /\ rstate' = final_state
    /\ UNCHANGED <<ai_settings, llm_settings, response, findings>>
    /\ UNCHANGED <<inference_vars, study_vars>>

\* an exception left generate_report: analyze_cxr's `except Exception` marks the
\* study failed and answers 500
Fail ==
    /\ rstate' = "FAILED"
    /\ UNCHANGED <<ai_settings, llm_settings, response, findings, report, triage>>
    /\ UNCHANGED <<inference_vars, study_vars>>

\* `if self.llm_service.is_available()` is false: no rewrite is attempted
RewriteSkipped ==
    /\ rstate = "TEMPLATE_GENERATED"
    /\ ~is_available(llm_settings)
    /\ Complete(report, "REWRITE_SKIPPED")
    /\ UNCHANGED provider_out

\* is_available() is true: rewrite_report awaits the provider
RewriteAttempt ==
    /\ rstate = "TEMPLATE_GENERATED"
    /\ is_available(llm_settings)
    /\ rstate' = "REWRITE_ATTEMPTED"
    /\ UNCHANGED <<ai_settings, llm_settings, response, findings, report, provider_out, triage>>
    /\ UNCHANGED <<inference_vars, study_vars>>

\* where the rewrite ends, by what happened: the provider call failed, the
\* verifier rejected the answer, the answer was empty, or it was taken
RewriteEnd(outcome, original_findings) ==
    IF outcome.raised THEN "REWRITE_FAILED"
    ELSE IF ~verify_no_new_findings(outcome.text, original_findings)
         THEN "REWRITE_REJECTED"
    ELSE IF outcome.text = <<>> THEN "REWRITE_EMPTY"
    ELSE "REWRITE_ACCEPTED"

\* the rest of generate_report once the provider call has ended with `outcome`
AfterProvider(outcome) ==
    LET finding_names == ReportFindingNames(findings, ai_settings)
        call == rewrite_report(llm_settings, outcome, finding_names)
    IN  /\ provider_out' = outcome
        /\ IF call.exception THEN Fail
           ELSE Complete(ReportAfterRewrite(report, call.value),
                         RewriteEnd(outcome, finding_names))

\* the provider answers with a text
ProviderReturns(text) ==
    /\ rstate = "REWRITE_ATTEMPTED"
    /\ AfterProvider(ProviderText(text))

\* the provider call raises (an HTTP error, a malformed answer) or times out
\* (httpx raises after 60 s)
ProviderRaises ==
    /\ rstate = "REWRITE_ATTEMPTED"
    /\ AfterProvider(ProviderRaised)

\* analyze_cxr answers; the request's data are dropped
Respond ==
    /\ rstate \in FinalStates \cup {"FAILED"}
    /\ response' = <<>>
    /\ findings' = <<>>
    /\ report' = NoReport
    /\ provider_out' = NoOutcome
    /\ triage' = NoTriage
    /\ rstate' = "IDLE"
    /\ UNCHANGED <<ai_settings, llm_settings>>
    /\ UNCHANGED <<inference_vars, study_vars>>

\* the triage runs: default LLM settings (no rewrite), every AISettings update
PutAISettings ==
    /\ rstate = "IDLE"
    /\ \E update \in AISettingsUpdates : UpdateAISettings(update)

AnalyzeTriage ==
    /\ rstate = "IDLE"
    /\ \E resp \in TriageResponses : AnalyzeCxr(resp)

TriageNext ==
    \/ PutAISettings
    \/ AnalyzeTriage
    \/ RewriteSkipped
    \/ Respond

TriageSpec == Init /\ [][TriageNext]_vars

\* the report runs: default AISettings, every LLMSettings update
PutLLMSettings ==
    /\ rstate = "IDLE"
    /\ \E update \in LLMSettingsUpdates : UpdateLLMSettings(update)

AnalyzeReport ==
    /\ rstate = "IDLE"
    /\ \E resp \in ReportResponses : AnalyzeCxr(resp)

\* the provider answers with any of its texts
ProviderAnswers ==
    /\ rstate = "REWRITE_ATTEMPTED"
    /\ \E text \in ProviderTexts(TemplateReport(findings, ai_settings)) :
           ProviderReturns(text)

ReportNext ==
    \/ PutLLMSettings
    \/ AnalyzeReport
    \/ RewriteSkipped
    \/ RewriteAttempt
    \/ ProviderAnswers
    \/ ProviderRaises
    \/ Respond

ReportSpec == Init /\ [][ReportNext]_vars

-----------------------------------------------------------------------------
(* The detector of the inference service *)

\* CXRDetector.predict on a loaded detector (analyze_image calls it only then):
\* the model puts out req.candidates, the two argsorts give order and top
Predict(req, order, top) ==
    /\ det_state = "idle"
    /\ det_request' = req
    /\ det_keep' =
          LET filtered == ConfidenceFilter(req.candidates, req.conf_threshold)
          IN  IF Len(filtered) = 0 THEN <<>>
              ELSE non_max_suppression([k \in 1..Len(filtered) |-> filtered[k].box],
                                       order, req.iou_threshold)
    /\ det_result' = predict(req, order, top)
    /\ det_state' = "done"
    /\ UNCHANGED <<backend_vars, study_vars, cls_vars, svc_vars>>

\* analyze_image has used the result; the call's data are dropped
DetectorRespond ==
    /\ det_state = "done"
    /\ det_state' = "idle"
    /\ det_request' = NoRequest
    /\ det_keep' = <<>>
    /\ det_result' = <<>>
    /\ UNCHANGED <<backend_vars, study_vars, cls_vars, svc_vars>>

\* a predict call on any model output
PredictAny ==
    /\ det_state = "idle"
    /\ \E req \in DetectorRequests :
           \E order \in NmsOrders(req) :
               \E top \in TopOrders(req, order) : Predict(req, order, top)

DetectorNext ==
    \/ PredictAny
    \/ DetectorRespond

DetectorSpec == Init /\ [][DetectorNext]_vars


-----------------------------------------------------------------------------
(* The classifier of the inference service *)

\* get_classifier and CXRClassifier.load succeeding, with the calibration file
\* as _load_calibration finds it
ClassifierLoad(file) ==
    /\ cls_state = "idle"
    /\ cls_file' = file
    /\ cls_calibrator' = load_calibration(file)
    /\ cls_loaded' = TRUE
    /\ UNCHANGED <<cls_state, cls_call, cls_out>>
    /\ UNCHANGED <<backend_vars, study_vars, det_vars, svc_vars>>

\* CXRClassifier.predict(image, calibrate) when the model puts out probs;
\* an unloaded classifier raises RuntimeError
ClassifierPredict(probs, calibrate) ==
    /\ cls_state = "idle"
    /\ cls_call' = [probs |-> probs, calibrate |-> calibrate]
    /\ cls_out' = IF ~cls_loaded THEN [raised |-> TRUE, results |-> <<>>]
                  ELSE classifier_predict(Pathologies, probs, cls_calibrator, calibrate)
    /\ cls_state' = "done"
    /\ UNCHANGED <<cls_file, cls_calibrator, cls_loaded>>
    /\ UNCHANGED <<backend_vars, study_vars, det_vars, svc_vars>>

\* analyze_image has used the results; the call's data are dropped
ClassifierReturn ==
    /\ cls_state = "done"
    /\ cls_state' = "idle"
    /\ cls_call' = NoCall
    /\ cls_out' = NoResults
    /\ UNCHANGED <<cls_file, cls_calibrator, cls_loaded>>
    /\ UNCHANGED <<backend_vars, study_vars, det_vars, svc_vars>>

ClassifierLoadAny ==
    /\ cls_state = "idle"
    /\ \E file \in CalibrationFiles : ClassifierLoad(file)

ClassifierPredictAny ==
    /\ cls_state = "idle"
    /\ \E probs \in ModelOutputs, calibrate \in BOOLEAN :
           ClassifierPredict(probs, calibrate)

ClassifierNext ==
    \/ ClassifierLoadAny
    \/ ClassifierPredictAny
    \/ ClassifierReturn

ClassifierSpec == Init /\ [][ClassifierNext]_vars

-----------------------------------------------------------------------------
(* The requests of the inference service *)

\* the handler of request r starts or resumes
Enter(r) == svc_running' = svc_running \cup {r}

\* the handler of request r awaits or returns
Leave(r) == svc_running' = svc_running \ {r}

\* load_models is entered: by the lifespan before the server accepts requests
\* (request Startup), by reload_models afterwards
LoadModels_Enter(r, endpoint) ==
    /\ svc_pc[r] = "none"
    /\ CanRun(svc_running)
    /\ svc_pc' = [svc_pc EXCEPT ![r] = "get_classifier"]
    /\ svc_resp' = [svc_resp EXCEPT ![r].endpoint = endpoint]
    /\ Enter(r)
    /\ UNCHANGED <<svc_classifier, svc_detector, svc_models_loaded>>
    /\ UNCHANGED <<backend_vars, study_vars, det_vars, cls_vars>>

Lifespan == LoadModels_Enter(Startup, "lifespan")

ReloadArrives(r) ==
    /\ r # Startup
    /\ svc_pc[Startup] = "done"
    /\ LoadModels_Enter(r, "reload")

\* `classifier = get_classifier(settings.device)`; an exception sets None
LoadModels_GetClassifier(r, raises) ==
    /\ svc_pc[r] = "get_classifier"
    /\ svc_classifier' = IF raises THEN NoHandle ELSE NewHandle
    /\ svc_pc' = [svc_pc EXCEPT ![r] = IF raises THEN "get_detector" ELSE "classifier_load"]
    /\ UNCHANGED <<svc_detector, svc_models_loaded, svc_running, svc_resp>>
    /\ UNCHANGED <<backend_vars, study_vars, det_vars, cls_vars>>

\* `if not classifier.load(): classifier = None`; an exception sets None
LoadModels_ClassifierLoad(r, loads) ==
    /\ svc_pc[r] = "classifier_load"
    /\ svc_classifier' = IF loads THEN LoadedHandle ELSE NoHandle
    /\ svc_pc' = [svc_pc EXCEPT ![r] = "get_detector"]
    /\ UNCHANGED <<svc_detector, svc_models_loaded, svc_running, svc_resp>>
    /\ UNCHANGED <<backend_vars, study_vars, det_vars, cls_vars>>

\* `detector = get_detector(settings.device)`; an exception falls back to a
\* loaded SimpleNoduleDetector
LoadModels_GetDetector(r, raises) ==
    /\ svc_pc[r] = "get_detector"
    /\ svc_detector' = IF raises THEN LoadedHandle ELSE NewHandle
    /\ svc_pc' = [svc_pc EXCEPT ![r] = IF raises THEN "models_loaded" ELSE "detector_load"]
    /\ UNCHANGED <<svc_classifier, svc_models_loaded, svc_running, svc_resp>>
    /\ UNCHANGED <<backend_vars, study_vars, det_vars, cls_vars>>

\* `if not detector.load()`: a failed load and an exception both fall back to
\* a loaded SimpleNoduleDetector
LoadModels_DetectorLoad(r, loads) ==
    /\ svc_pc[r] = "detector_load"
    /\ svc_detector' = LoadedHandle
    /\ svc_pc' = [svc_pc EXCEPT ![r] = "models_loaded"]
    /\ UNCHANGED <<svc_classifier, svc_models_loaded, svc_running, svc_resp>>
    /\ UNCHANGED <<backend_vars, study_vars, det_vars, cls_vars>>

\* `models_loaded = classifier is not None or detector is not None`, and the
\* return of the lifespan's call or of reload_models
LoadModels_Return(r) ==
    /\ svc_pc[r] = "models_loaded"
    /\ svc_models_loaded' = (svc_classifier.present \/ svc_detector.present)
    /\ svc_pc' = [svc_pc EXCEPT ![r] = "done"]
    /\ svc_resp' = [svc_resp EXCEPT ![r].status = 200]
    /\ Leave(r)
    /\ UNCHANGED <<svc_classifier, svc_detector>>
    /\ UNCHANGED <<backend_vars, study_vars, det_vars, cls_vars>>

\* analyze_image from its start to `await file.read()`
AnalyzeArrives(r) ==
    /\ r # Startup
    /\ svc_pc[Startup] = "done"
    /\ svc_pc[r] = "none"
    /\ CanRun(svc_running)
    /\ svc_pc' = [svc_pc EXCEPT ![r] = "reading"]
    /\ svc_resp' = [svc_resp EXCEPT ![r].endpoint = "analyze"]
    /\ UNCHANGED <<svc_classifier, svc_detector, svc_models_loaded, svc_running>>
    /\ UNCHANGED <<backend_vars, study_vars, det_vars, cls_vars>>

\* analyze_image resumes after the read; an upload that Image.open cannot read
\* is answered 400
AnalyzeResumes(r, readable) ==
    /\ svc_pc[r] = "reading"
    /\ CanRun(svc_running)
    /\ IF readable
         THEN /\ svc_pc' = [svc_pc EXCEPT ![r] = "classifier"]
              /\ Enter(r)
              /\ UNCHANGED svc_resp
         ELSE /\ svc_pc' = [svc_pc EXCEPT ![r] = "done"]
              /\ svc_resp' = [svc_resp EXCEPT ![r].status = 400]
              /\ UNCHANGED svc_running
    /\ UNCHANGED <<svc_classifier, svc_detector, svc_models_loaded>>
    /\ UNCHANGED <<backend_vars, study_vars, det_vars, cls_vars>>

\* the classifier block of analyze_image
RunClassifier(r, raises, classifier_results) ==
    /\ svc_pc[r] = "classifier"
    /\ LET block == ClassifierBlock(svc_classifier, raises, classifier_results)
       IN  svc_resp' = [svc_resp EXCEPT ![r].findings = block.findings,
                                        ![r].classifier_run = block.run]
    /\ svc_pc' = [svc_pc EXCEPT ![r] = "detector"]
    /\ UNCHANGED <<svc_classifier, svc_detector, svc_models_loaded, svc_running>>
    /\ UNCHANGED <<backend_vars, study_vars, det_vars, cls_vars>>

\* the detector block of analyze_image
RunDetector(r, raises, detector_results) ==
    /\ svc_pc[r] = "detector"
    /\ LET block == DetectorBlock(svc_detector, raises, detector_results)
       IN  svc_resp' = [svc_resp EXCEPT ![r].bounding_boxes = block.bounding_boxes,
                                        ![r].detector_run = block.run]
    /\ svc_pc' = [svc_pc EXCEPT ![r] = "respond"]
    /\ UNCHANGED <<svc_classifier, svc_detector, svc_models_loaded, svc_running>>
    /\ UNCHANGED <<backend_vars, study_vars, det_vars, cls_vars>>

\* model_info is built and the AnalysisResponse is returned
AnalyzeReturns(r) ==
    /\ svc_pc[r] = "respond"
    /\ svc_pc' = [svc_pc EXCEPT ![r] = "done"]
    /\ svc_resp' = [svc_resp EXCEPT ![r].status = 200]
    /\ Leave(r)
    /\ UNCHANGED <<svc_classifier, svc_detector, svc_models_loaded>>
    /\ UNCHANGED <<backend_vars, study_vars, det_vars, cls_vars>>

\* the client of an answered request is gone; the backend keeps a response
\* until its own request is answered
Forget(r) ==
    /\ r # Startup
    /\ svc_pc[r] = "done"
    /\ rstate = "IDLE"
    /\ svc_pc' = [svc_pc EXCEPT ![r] = "none"]
    /\ svc_resp' = [svc_resp EXCEPT ![r] = NoResponse]
    /\ UNCHANGED <<svc_classifier, svc_detector, svc_models_loaded, svc_running>>
    /\ UNCHANGED <<backend_vars, study_vars, det_vars, cls_vars>>

\* the backend's analyze_cxr receives the answer of its /analyze request:
\* raise_for_status passes a 200 and response.json() is parsed
BackendReceives(r) ==
    /\ rstate = "IDLE"
    /\ svc_pc[r] = "done"
    /\ svc_resp[r].endpoint = "analyze"
    /\ svc_resp[r].status = 200
    /\ AnalyzeCxr(svc_resp[r].findings)

\* raise_for_status raises on a 400: analyze_cxr fails
BackendRefused(r) ==
    /\ rstate = "IDLE"
    /\ svc_pc[r] = "done"
    /\ svc_resp[r].endpoint = "analyze"
    /\ svc_resp[r].status = 400
    /\ Fail
    /\ UNCHANGED provider_out

\* the service runs: default settings in the backend, any readable or
\* unreadable upload, any outcome of a load and of a predict call
ReloadAny == \E r \in Requests : ReloadArrives(r)
GetClassifierAny ==
    \E r \in Requests, raises \in BOOLEAN : LoadModels_GetClassifier(r, raises)
ClassifierLoadsAny ==
    \E r \in Requests, loads \in BOOLEAN : LoadModels_ClassifierLoad(r, loads)
GetDetectorAny ==
    \E r \in Requests, raises \in BOOLEAN : LoadModels_GetDetector(r, raises)
DetectorLoadsAny ==
    \E r \in Requests, loads \in BOOLEAN : LoadModels_DetectorLoad(r, loads)
LoadReturnsAny == \E r \in Requests : LoadModels_Return(r)
AnalyzeAny == \E r \in Requests : AnalyzeArrives(r)
ResumeAny == \E r \in Requests, readable \in BOOLEAN : AnalyzeResumes(r, readable)
RunClassifierAny ==
    \E r \in Requests, raises \in BOOLEAN, classifier_results \in ServiceFindings :
        RunClassifier(r, raises, classifier_results)
RunDetectorAny ==
    \E r \in Requests, raises \in BOOLEAN, detector_results \in ServiceBoxes :
        RunDetector(r, raises, detector_results)
AnalyzeReturnsAny == \E r \in Requests : AnalyzeReturns(r)
ForgetAny == \E r \in Requests : Forget(r)
BackendReceivesAny == \E r \in Requests : BackendReceives(r)
BackendRefusedAny == \E r \in Requests : BackendRefused(r)

ServiceNext ==
    \/ Lifespan
    \/ ReloadAny
    \/ GetClassifierAny
    \/ ClassifierLoadsAny
    \/ GetDetectorAny
    \/ DetectorLoadsAny
    \/ LoadReturnsAny
    \/ AnalyzeAny
    \/ ResumeAny
    \/ RunClassifierAny
    \/ RunDetectorAny
    \/ AnalyzeReturnsAny
    \/ ForgetAny
    \/ BackendReceivesAny
    \/ BackendRefusedAny
    \/ RewriteSkipped
    \/ Respond

ServiceSpec == Init /\ [][ServiceNext]_vars

-----------------------------------------------------------------------------
(* Repeated analyze_cxr requests without rewrite *)

\* analyze_cxr answers a completed request whose report was not rewritten, and
\* the client keeps the report with the findings and settings it was made from
RespondKept ==
    /\ rstate = "REWRITE_SKIPPED"
    /\ previous' = [findings |-> findings, ai_settings |-> ai_settings, report |-> report]
    /\ response' = <<>>
    /\ findings' = <<>>
    /\ report' = NoReport
    /\ provider_out' = NoOutcome
    /\ triage' = NoTriage
    /\ rstate' = "IDLE"
    /\ UNCHANGED <<ai_settings, llm_settings>>
    /\ UNCHANGED <<inference_vars, study_table, broker, worker>>

\* the repeated runs: default LLM settings (no rewrite), every AISettings
\* update, the inference responses of the report runs
RepeatNext ==
    \/ PutAISettings
    \/ AnalyzeReport
    \/ RewriteSkipped
    \/ RespondKept

RepeatSpec == Init /\ [][RepeatNext]_vars

-----------------------------------------------------------------------------
(* The isotonic calibrator alone *)

\* IsotonicCalibrator(calibration_map) with a list for one finding; the map
\* of a calibrator is not assigned again
IsotonicInit(points) ==
    /\ cls_state = "idle"
    /\ cls_calibrator = NoCalibrator
    /\ cls_calibrator' = IsotonicCalibrator(Str_mass :> points)
    /\ UNCHANGED <<cls_file, cls_loaded, cls_state, cls_call, cls_out>>
    /\ UNCHANGED <<backend_vars, study_vars, det_vars, svc_vars>>

\* calibrator.calibrate(finding_name, probability)
IsotonicCall(probability) ==
    /\ cls_state = "idle"
    /\ cls_calibrator.kind = "isotonic"
    /\ cls_call' = [finding |-> Str_mass, probability |-> probability]
    /\ cls_out' = IsotonicCalibrator_calibrate(cls_calibrator.calibration_map,
                                               Str_mass, probability)
    /\ cls_state' = "done"
    /\ UNCHANGED <<cls_file, cls_calibrator, cls_loaded>>
    /\ UNCHANGED <<backend_vars, study_vars, det_vars, svc_vars>>

\* the isotonic runs: every non-empty list of up to MaxListed control points,
\* every query
IsotonicInitAny ==
    /\ cls_state = "idle"
    /\ cls_calibrator = NoCalibrator
    /\ \E points \in SeqsUpTo(ListedPoints, MaxListed) \ {<<>>} : IsotonicInit(points)

IsotonicCallAny ==
    /\ cls_state = "idle"
    /\ \E probability \in Queries : IsotonicCall(probability)

IsotonicNext ==
    \/ IsotonicInitAny
    \/ IsotonicCallAny
    \/ ClassifierReturn

IsotonicSpec == Init /\ [][IsotonicNext]_vars

-----------------------------------------------------------------------------
(* Asynchronous requests and the worker *)

\* analyze_cxr with async_mode=true for a new study: the Study row is created,
\* the upload is processed and the row is marked "queued"; no task is sent to
\* the broker (the handler's TODO). An upload that cannot be processed marks
\* the row "failed".
AcceptAsync(s, processed) ==
    /\ study_table[s].status = "none"
    /\ study_table' = [study_table EXCEPT
                           ![s].status = IF processed THEN "queued" ELSE "failed"]
    /\ UNCHANGED <<previous, broker, worker>>
    /\ UNCHANGED <<backend_vars, inference_vars>>

\* the studies that have a task message waiting or executing
Tasked == {t.study : t \in broker} \cup {worker.study}

\* an analyze_study task is sent to the broker by some Celery client, with the
\* stored settings; one task per study at a time, none for a completed study
SendTask(s) ==
    /\ s \notin Tasked
    /\ study_table[s].status # "completed"
    /\ broker' = broker \cup {[study |-> s, settings |-> SettingsDict(ai_settings),
                               retries |-> 0]}
    /\ UNCHANGED <<previous, study_table, worker>>
    /\ UNCHANGED <<backend_vars, inference_vars>>

\* the worker takes a task: analyze_study up to the call of the inference
\* service; the row, if there is one, is marked "processing"
WorkerStarts(task) ==
    /\ worker = NoTask
    /\ task \in broker
    /\ broker' = broker \ {task}
    /\ worker' = task
    /\ study_table' = IF study_table[task.study].status = "none" THEN study_table
                      ELSE [study_table EXCEPT ![task.study].status = "processing"]
    /\ UNCHANGED previous
    /\ UNCHANGED <<backend_vars, inference_vars>>

\* self.retry: the task is sent again until max_retries is used up
Retried(task) ==
    IF task.retries < MaxRetries THEN {[task EXCEPT !.retries = @ + 1]} ELSE {}

\* the rest of analyze_study: with an inference result the Finding rows are
\* added and the row is completed; an exception (no row, no image, the
\* inference service failing) rolls back, marks the row, if there is one,
\* "failed" and retries
WorkerFinishes(result, raises) ==
    /\ worker # NoTask
    /\ LET s == worker.study
           absent == study_table[s].status = "none"
           triage_result == tasks_determine_triage(result, worker.settings)
       IN  IF absent \/ raises
           THEN /\ study_table' = IF absent THEN study_table
                                  ELSE [study_table EXCEPT ![s].status = "failed"]
                /\ broker' = broker \cup Retried(worker)
           ELSE /\ study_table' = [study_table EXCEPT
                                       ![s].status = "completed",
                                       ![s].findings = TaskFindings(result, worker.settings),
                                       ![s].triage_level = triage_result.level,
                                       ![s].triage_reasons = triage_result.reasons]
                /\ UNCHANGED broker
    /\ worker' = NoTask
    /\ UNCHANGED previous
    /\ UNCHANGED <<backend_vars, inference_vars>>

\* the asynchronous runs: default settings, any upload, any task, any
\* inference result or failure
AcceptAsyncAny == \E s \in Studies, processed \in BOOLEAN : AcceptAsync(s, processed)
SendTaskAny == \E s \in Studies : SendTask(s)
WorkerStartsAny ==
    /\ worker = NoTask
    /\ \E task \in broker : WorkerStarts(task)
WorkerFinishesAny ==
    /\ worker # NoTask
    /\ \E result \in WorkerResponses, raises \in BOOLEAN : WorkerFinishes(result, raises)

AsyncNext ==
    \/ AcceptAsyncAny
    \/ SendTaskAny
    \/ WorkerStartsAny
    \/ WorkerFinishesAny

\* the worker process takes a waiting task and runs the task it has taken to
\* its end; nothing obliges a client to send a task
AsyncSpec ==
    /\ Init
    /\ [][AsyncNext]_vars
    /\ WF_vars(WorkerStartsAny)
    /\ WF_vars(WorkerFinishesAny)
-----------------------------------------------------------------------------
(* Properties of threshold classification and triage (TriageSpec) *)

\* generate_report and determine_triage have returned for the request in hand
Analyzed == rstate \in FinalStates

\* the effective probability of the i-th raw finding of the request
EffectiveOf(i) ==
    EffectiveProb(ai_settings, response[i].probability,
                  response[i].calibrated_probability)

\* the thresholds configured for the i-th finding of the request
ThresholdOf(i) == get_threshold(ai_settings, response[i].name)

\* the statuses the four rules of the specification give probability e
RuleStatuses(e, th) ==
    LET pos == e >= th.strong_threshold
        possible == th.triage_threshold <= e /\ e < th.strong_threshold
        uncertain == 7 * th.triage_threshold <= 10 * e /\ e < th.triage_threshold
    IN  {s \in {"POSITIVE"} : pos}
        \cup {s \in {"POSSIBLE"} : possible}
        \cup {s \in {"UNCERTAIN"} : uncertain}
        \cup {s \in {"NEG"} : ~pos /\ ~possible /\ ~uncertain}

\* C1: every finding parse_findings returns has exactly the one status the four
\* rules give its effective probability e: POSITIVE iff e >= strong_threshold,
\* POSSIBLE iff triage_threshold <= e < strong_threshold, UNCERTAIN iff
\* 0.7*triage_threshold <= e < triage_threshold, NEG otherwise.
C1_StatusByRules ==
    rstate # "IDLE" =>
        /\ Len(findings) = Len(response)
        /\ \A i \in 1..Len(findings) :
              RuleStatuses(EffectiveOf(i), ThresholdOf(i)) = {findings[i].status}

\* the category the specification gives an enabled finding: by its status and
\* its effective probability
RuleCategory(i) ==
    IF findings[i].status = "POSITIVE"
       /\ EffectiveOf(i) >= ThresholdOf(i).strong_threshold
    THEN "urgent"
    ELSE IF findings[i].status \in {"POSITIVE", "POSSIBLE"} THEN "routine"
    ELSE IF findings[i].status = "UNCERTAIN" THEN "uncertain"
    ELSE "negative"

\* C4: _categorize_findings puts every enabled finding in the category its
\* status and effective probability give: urgent iff POSITIVE and
\* effective >= strong_threshold, routine iff POSITIVE or POSSIBLE and not
\* urgent, uncertain iff UNCERTAIN, negative otherwise.
C4_CategoryByEffectiveProbability ==
    rstate # "IDLE" =>
        \A i \in 1..Len(findings) :
            ThresholdOf(i).enabled =>
                CategoryOf(findings[i], ai_settings) = RuleCategory(i)

\* the positions of the request's findings that _categorize_findings puts in cat
PositionsOf(cat) ==
    {i \in 1..Len(findings) : CategoryOf(findings[i], ai_settings) = cat}

\* C2: the level is URGENT iff an enabled finding is categorised urgent,
\* otherwise ROUTINE iff one is categorised routine or uncertain, otherwise
\* NORMAL; and enabled findings that are all UNCERTAIN or NEG never give URGENT.
C2_LevelByCategories ==
    Analyzed =>
        /\ triage.level \in {"URGENT", "ROUTINE", "NORMAL"}
        /\ triage.level = "URGENT" <=> PositionsOf("urgent") # {}
        /\ triage.level = "ROUTINE" <=>
              /\ PositionsOf("urgent") = {}
              /\ PositionsOf("routine") \cup PositionsOf("uncertain") # {}
        /\ triage.level = "NORMAL" <=>
              PositionsOf("urgent") \cup PositionsOf("routine")
                  \cup PositionsOf("uncertain") = {}
        /\ (\A i \in 1..Len(findings) :
                ThresholdOf(i).enabled => findings[i].status \in {"UNCERTAIN", "NEG"})
           => triage.level # "URGENT"

\* C2 witness: one urgent finding beside a negative one gave URGENT
C2_UrgentAmongNegatives ==
    /\ Analyzed
    /\ Cardinality(PositionsOf("urgent")) = 1
    /\ PositionsOf("negative") # {}
    /\ triage.level = "URGENT"

\* the category whose findings the reasons speak of
WinningCategory ==
    IF PositionsOf("urgent") # {} THEN "urgent"
    ELSE IF PositionsOf("routine") # {} THEN "routine"
    ELSE IF PositionsOf("uncertain") # {} THEN "uncertain"
    ELSE "none"

\* the position of the k-th finding of category cat, counting in input order
KthOf(cat, k) ==
    CHOOSE i \in PositionsOf(cat) :
        Cardinality({j \in PositionsOf(cat) : j <= i}) = k

\* the reason the specification words for a finding name of category cat
RuleReason(cat, name) ==
    IF cat = "urgent" THEN Phrase.High_confidence \o name \o Phrase.detected
    ELSE IF cat = "routine" THEN Phrase.Possible \o name \o Phrase.detected
    ELSE Phrase.Uncertain \o name \o Phrase.needs_review

\* C3: the reasons are one per finding of the winning category, worded for that
\* category, in the findings' input order, none for another category; and the
\* single reason "No significant abnormalities detected" when NORMAL.
C3_ReasonsInInputOrder ==
    Analyzed =>
        LET cat == WinningCategory
        IN  IF cat = "none"
            THEN triage.reasons = <<Phrase.No_abnormalities_detected>>
            ELSE /\ Len(triage.reasons) = Cardinality(PositionsOf(cat))
                 /\ \A k \in 1..Len(triage.reasons) :
                       triage.reasons[k] =
                           RuleReason(cat, findings[KthOf(cat, k)].finding_name)

\* C3 witness: two findings of different names in the winning category, reasons
\* given for both
C3_TwoReasons ==
    /\ Analyzed
    /\ WinningCategory # "none"
    /\ Cardinality(PositionsOf(WinningCategory)) = 2
    /\ findings[1].finding_name # findings[2].finding_name
    /\ Len(triage.reasons) = 2

\* the finding lists parse_findings could have returned under the same settings
\* with the same names and statuses in the same order as the request's
SameStatusLists ==
    {fs \in {parse_findings(r, ai_settings) : r \in TriageResponses} :
        /\ Len(fs) = Len(findings)
        /\ \A i \in 1..Len(fs) :
              /\ fs[i].finding_name = findings[i].finding_name
              /\ fs[i].status = findings[i].status}

\* C5: any finding list with the same names and statuses in the same order gets
\* the same triage level under the same settings.
C5_LevelByStatusesOnly ==
    Analyzed =>
        \A fs \in SameStatusLists :
            determine_triage(fs, ai_settings).level = triage.level

\* s without its i-th element
RemoveAt(s, i) == [k \in 1..(Len(s) - 1) |-> IF k < i THEN s[k] ELSE s[k + 1]]

\* the positions of the request's findings whose configuration has enabled=false
DisabledPositions == {i \in 1..Len(response) : ~ThresholdOf(i).enabled}

\* C6: a finding whose configuration has enabled=false is still returned by
\* parse_findings, and the request without it gets the same triage level, the
\* same reasons, the same findings_text and the same impression_text.
C6_DisabledContributesNothing ==
    Analyzed =>
        \A i \in DisabledPositions :
            LET without == parse_findings(RemoveAt(response, i), ai_settings)
                rep == TemplateResult(without, ai_settings)
            IN  /\ Len(findings) = Len(response)
                /\ findings[i].finding_name = response[i].name
                /\ findings[i].probability = response[i].probability
                /\ determine_triage(without, ai_settings) = triage
                /\ rep.findings_text = report.findings_text
                /\ rep.impression_text = report.impression_text

\* C6 witness: a disabled finding with status POSITIVE was returned, beside an
\* enabled finding, and the triage is not URGENT
C6_DisabledPositive ==
    /\ Analyzed
    /\ \E i \in DisabledPositions : findings[i].status = "POSITIVE"
    /\ DisabledPositions # 1..Len(response)
    /\ triage.level # "URGENT"

-----------------------------------------------------------------------------
(* Properties of detection post-processing (DetectorSpec) *)

\* the candidates of the call in hand that pass the confidence filter
Filtered == ConfidenceFilter(det_request.candidates, det_request.conf_threshold)

\* the i-th filtered candidate is among the boxes suppression kept
Survives(i) == \E k \in 1..Len(det_keep) : det_keep[k] = i

\* the IoU of a and b, intersection / union, is strictly above thr[1] / thr[2]
IouExceeds(a, b, thr) == Intersection(a, b) * thr[2] > thr[1] * Union(a, b)

\* the pairs <<higher, lower>> of filtered candidates with different confidences
ScoredPairs ==
    {p \in (1..Len(Filtered)) \X (1..Len(Filtered)) :
        Filtered[p[1]].score > Filtered[p[2]].score}

\* what the specification says of the pair p: above the threshold only the
\* higher-confidence box survives, otherwise both survive
PairRule(p) ==
    IF IouExceeds(Filtered[p[1]].box, Filtered[p[2]].box, det_request.iou_threshold)
    THEN Survives(p[1]) /\ ~Survives(p[2])
    ELSE Survives(p[1]) /\ Survives(p[2])

\* C7 as stated: for any two candidates with different confidences that pass the
\* confidence filter, IoU > threshold leaves only the higher-confidence one after
\* suppression, and IoU <= threshold leaves both.
C7_AnyPairRule ==
    det_state = "done" => \A p \in ScoredPairs : PairRule(p)

\* C7 amended: the rule holds when the two boxes are the only candidates that
\* pass the confidence filter; among more candidates two boxes with
\* IoU > threshold never both survive.
C7_PairRuleOfTwo ==
    det_state = "done" =>
        \A p \in ScoredPairs :
            /\ Len(Filtered) = 2 => PairRule(p)
            /\ IouExceeds(Filtered[p[1]].box, Filtered[p[2]].box,
                          det_request.iou_threshold)
               => ~(Survives(p[1]) /\ Survives(p[2]))

\* C7 witness: two filtered candidates of different confidences whose IoU is
\* exactly the threshold, both kept
C7_EqualToThresholdKept ==
    /\ det_state = "done"
    /\ Len(Filtered) = 2
    /\ ScoredPairs # {}
    /\ Intersection(Filtered[1].box, Filtered[2].box) * det_request.iou_threshold[2]
          = det_request.iou_threshold[1] * Union(Filtered[1].box, Filtered[2].box)
    /\ Survives(1) /\ Survives(2)

\* the i-th returned box is the candidate c
IsCandidate(d, c) ==
    /\ d.box = c.box
    /\ d.confidence = c.score
    /\ d.name = ClassName(c.label)

\* C8: predict returns at most max_boxes boxes, each a different candidate with
\* confidence >= the confidence threshold; with no candidate, or none at or
\* above the threshold, it returns the empty list.
C8_AtMostMaxBoxesOfFiltered ==
    det_state = "done" =>
        /\ Len(det_result) <= det_request.max_boxes
        /\ \E m \in [1..Len(det_result) -> 1..Len(det_request.candidates)] :
              /\ \A j, k \in 1..Len(det_result) : j # k => m[j] # m[k]
              /\ \A k \in 1..Len(det_result) :
                    /\ det_request.candidates[m[k]].score >= det_request.conf_threshold
                    /\ IsCandidate(det_result[k], det_request.candidates[m[k]])
        /\ (\A k \in 1..Len(det_request.candidates) :
                det_request.candidates[k].score < det_request.conf_threshold)
           => det_result = <<>>

\* C8 witness: suppression kept more boxes than max_boxes and the result was cut
\* to max_boxes
C8_CutToMaxBoxes ==
    /\ det_state = "done"
    /\ det_request.max_boxes > 0
    /\ Len(det_keep) > det_request.max_boxes
    /\ Len(det_result) = det_request.max_boxes

-----------------------------------------------------------------------------
(* Properties of the rewrite fallback and the safety verifier (ReportSpec) *)

\* the report of the request in hand is the deterministic template text
ReportIsTemplate ==
    /\ report.llm_rewritten = FALSE
    /\ report.findings_text = TemplateFindingsText(findings, ai_settings)
    /\ report.impression_text = TemplateImpressionText(findings, ai_settings)

\* C9: when the verifier rejects the rewrite, the provider call raises or times
\* out, or no rewrite is attempted, generate_report returns llm_rewritten=false
\* with the template's findings_text and impression_text, and no exception
\* reaches analyze_cxr.
C9_FallbackToTemplate ==
    /\ rstate # "FAILED"
    /\ rstate \in {"REWRITE_SKIPPED", "REWRITE_REJECTED", "REWRITE_FAILED"}
       => ReportIsTemplate

\* C9 witness: the provider call raised and the template report was returned
C9_ProviderRaisedTemplateKept ==
    /\ rstate = "REWRITE_FAILED"
    /\ provider_out.raised
    /\ ReportIsTemplate
    /\ findings # <<>>

\* the provider answered the request in hand with a text
ProviderAnswered == rstate \in {"REWRITE_ACCEPTED", "REWRITE_REJECTED", "REWRITE_EMPTY"}

\* the names of the enabled findings of the request, lowercased
OriginalNames ==
    {Lower(findings[i].finding_name) :
        i \in {j \in 1..Len(findings) :
                 get_threshold(ai_settings, findings[j].finding_name).enabled}}

\* the answered text (compared without regard to case) contains term T, no
\* original finding name contains T or is contained in T, and the text holds
\* none of the six negation phrases for T
NewUnnegated(T) ==
    LET text == Lower(provider_out.text)
    IN  /\ Contains(text, T)
        /\ \A n \in OriginalNames : ~Contains(n, T) /\ ~Contains(T, n)
        /\ \A n \in 1..Len(NegationPrefixes) : ~Contains(text, NegationPrefixes[n] \o T)

\* C10: for every term T of the vocabulary, a rewritten text that contains T
\* where no original finding name contains T or is contained in T and that has
\* no negation phrase for T is rejected: llm_rewritten=false and the report is
\* the template text.
C10_NewTermRejected ==
    ProviderAnswered =>
        \A t \in 1..Len(medical_terms) :
            NewUnnegated(medical_terms[t])
            => rstate = "REWRITE_REJECTED" /\ ReportIsTemplate

\* C10 witness: an answer bringing in "mass" un-negated, beside a negated term,
\* for a request without a mass finding, was rejected
C10_MassRejected ==
    /\ rstate = "REWRITE_REJECTED"
    /\ findings # <<>>
    /\ NewUnnegated(Str_mass)
    /\ \E t \in 1..Len(medical_terms) :
          /\ Contains(Lower(provider_out.text), medical_terms[t])
          /\ ~NewUnnegated(medical_terms[t])
    /\ ReportIsTemplate


-----------------------------------------------------------------------------
(* Properties of the rewrite phase of generate_report (ReportSpec) *)

\* the settings of the request name an active provider whose own enabled flag
\* is true, and the rewrite flag is on
RewriteConfigured ==
    /\ llm_settings.active_provider \in Providers
    /\ llm_settings.enabled[llm_settings.active_provider]
    /\ llm_settings.llm_rewrite_enabled

\* the provider call of the request in hand has been made
ProviderCalled ==
    rstate \in {"REWRITE_ATTEMPTED", "REWRITE_ACCEPTED", "REWRITE_REJECTED",
                "REWRITE_EMPTY", "REWRITE_FAILED"}

\* C11: the provider's rewrite is called only if active_provider names a
\* provider whose own enabled flag is true and llm_rewrite_enabled is true; in
\* every other configuration generate_report returns without a provider call
\* and with llm_rewritten=false.
C11_RewriteOnlyWhenEnabled ==
    /\ ProviderCalled => RewriteConfigured
    /\ rstate \in FinalStates /\ ~RewriteConfigured
       => /\ rstate = "REWRITE_SKIPPED"
          /\ provider_out = NoOutcome
          /\ report.llm_rewritten = FALSE

\* C11 witness: the rewrite flag is on and the active provider is not the one
\* that is enabled; the report was returned without a call
C11_OtherProviderEnabledSkipped ==
    /\ rstate = "REWRITE_SKIPPED"
    /\ llm_settings.llm_rewrite_enabled
    /\ llm_settings.active_provider \in Providers
    /\ ~llm_settings.enabled[llm_settings.active_provider]
    /\ \E p \in Providers : llm_settings.enabled[p]
    /\ report.llm_rewritten = FALSE

\* the attempt ended without a text to take: rewrite_report returned None (the
\* verifier refused the answer, or the provider call failed) or an empty text,
\* so generate_report's `if rewritten:` is false. These are the ways of
\* REWRITE_REJECTED
NotAccepted == {"REWRITE_REJECTED", "REWRITE_EMPTY", "REWRITE_FAILED"}

\* the order of the rewrite phase, step by step
RewritePhaseStep ==
    /\ rstate' = "TEMPLATE_GENERATED" => rstate = "IDLE"
    /\ rstate' = "REWRITE_ATTEMPTED"
       => rstate = "TEMPLATE_GENERATED" /\ report' = report
    /\ rstate = "REWRITE_ATTEMPTED" /\ rstate' # rstate
       => rstate' \in NotAccepted \cup {"REWRITE_ACCEPTED"}
    /\ rstate' \in NotAccepted \cup {"REWRITE_ACCEPTED"} /\ rstate' # rstate
       => rstate = "REWRITE_ATTEMPTED"
    /\ rstate # "IDLE" /\ rstate' # "IDLE" /\ report' # report
       => rstate = "REWRITE_ATTEMPTED" /\ rstate' = "REWRITE_ACCEPTED"

\* what the report holds in each state of the phase
RewritePhaseContent ==
    /\ rstate \in {"TEMPLATE_GENERATED", "REWRITE_ATTEMPTED"} \cup NotAccepted
       => report = TemplateResult(findings, ai_settings)
    /\ report.llm_rewritten => rstate = "REWRITE_ACCEPTED"
    /\ rstate = "REWRITE_ACCEPTED" => report.llm_rewritten

\* C12: within one generate_report call the report goes TEMPLATE_GENERATED ->
\* REWRITE_ATTEMPTED -> accepted or rejected: the attempt is entered only from
\* TEMPLATE_GENERATED (so at most once, and with the template text in hand), the
\* texts change only in the step from the attempt to REWRITE_ACCEPTED (so at most
\* once), llm_rewritten is true only in REWRITE_ACCEPTED, and a rejected attempt
\* carries the template content.
C12_RewritePhase == [][RewritePhaseStep]_vars /\ []RewritePhaseContent

\* C12 witness: an attempt was accepted and the findings text is no longer the
\* template's
C12_AcceptedReplaced ==
    /\ rstate = "REWRITE_ACCEPTED"
    /\ report.llm_rewritten
    /\ report.findings_text # TemplateFindingsText(findings, ai_settings)
    /\ report.impression_text = TemplateImpressionText(findings, ai_settings)

\* the answer the request's rewrite took
AcceptedText == provider_out.text

\* the part of the accepted answer before its first "IMPRESSION:"
BeforeImpression ==
    SubSeq(AcceptedText, 1, FirstIndex(AcceptedText, Phrase.IMPRESSION) - 1)

\* the part of the accepted answer after its first "IMPRESSION:"
AfterImpression ==
    SubSeq(AcceptedText,
           FirstIndex(AcceptedText, Phrase.IMPRESSION) + Len(Phrase.IMPRESSION),
           Len(AcceptedText))

\* C13: when a rewrite is accepted and the answer contains "FINDINGS:" and
\* "IMPRESSION:", findings_text is the text before "IMPRESSION:" with "FINDINGS:"
\* removed and impression_text is the text after "IMPRESSION:" (both without
\* the surrounding whitespace); when the answer contains neither marker, the
\* whole answer is findings_text and impression_text is the template's
\* impression; llm_rewritten is true in both cases.
C13_AcceptedTextBySections ==
    rstate = "REWRITE_ACCEPTED" =>
        /\ report.llm_rewritten
        /\ Contains(AcceptedText, Phrase.FINDINGS)
           /\ Contains(AcceptedText, Phrase.IMPRESSION)
           => /\ report.findings_text = Strip(Remove(BeforeImpression, Phrase.FINDINGS))
              /\ report.impression_text = Strip(AfterImpression)
        /\ ~Contains(AcceptedText, Phrase.FINDINGS)
           /\ ~Contains(AcceptedText, Phrase.IMPRESSION)
           => /\ report.findings_text = AcceptedText
              /\ report.impression_text = TemplateImpressionText(findings, ai_settings)

\* the places of the text at which an occurrence of pat starts
Occurrences(text, pat) ==
    {i \in 1..(Len(text) - Len(pat) + 1) :
        \A j \in 1..Len(pat) : text[i + j - 1] = pat[j]}

\* the occurrence of a term at place i of the text follows one of the negation
\* phrases directly
WrappedAt(text, i) ==
    \E n \in 1..Len(NegationPrefixes) :
        LET neg == NegationPrefixes[n]
        IN  /\ i > Len(neg)
            /\ SubSeq(text, i - Len(neg), i - 1) = neg

\* term T is new to the request: no original finding name contains T or is
\* contained in T
NewTerm(T) == \A n \in OriginalNames : ~Contains(n, T) /\ ~Contains(T, n)

\* C29: the verifier accepts a rewrite only if every occurrence of a new
\* vocabulary term (one unrelated to all original finding names) is itself
\* wrapped in one of the negation phrases: a text with both a negated and a
\* separate un-negated occurrence of the same new term is rejected.
C29_EveryOccurrenceNegated ==
    rstate \in {"REWRITE_ACCEPTED", "REWRITE_EMPTY"} =>
        \A t \in 1..Len(medical_terms) :
            NewTerm(medical_terms[t])
            => \A i \in Occurrences(Lower(provider_out.text), medical_terms[t]) :
                   WrappedAt(Lower(provider_out.text), i)

\* the names of the enabled findings of the request whose status is not NEG,
\* lowercased
AssertedNames ==
    {Lower(findings[i].finding_name) :
        i \in {j \in 1..Len(findings) :
                 /\ get_threshold(ai_settings, findings[j].finding_name).enabled
                 /\ findings[j].status \in {"POSITIVE", "POSSIBLE", "UNCERTAIN"}}}

\* the answered text (compared without regard to case) asserts term T: it
\* contains T and none of the six negation phrases for T
Asserts(T) ==
    LET text == Lower(provider_out.text)
    IN  /\ Contains(text, T)
        /\ \A n \in 1..Len(NegationPrefixes) : ~Contains(text, NegationPrefixes[n] \o T)

\* C30: an accepted rewrite never positively asserts a finding classified as
\* NEG: the names against which the verifier allows vocabulary terms are only
\* those of enabled findings whose status is POSITIVE, POSSIBLE or UNCERTAIN,
\* so a rewrite asserting a term related only to NEG findings is rejected.
C30_NegativeNeverAsserted ==
    rstate = "REWRITE_ACCEPTED" =>
        \A t \in 1..Len(medical_terms) :
            Asserts(medical_terms[t])
            => \E n \in AssertedNames :
                   Contains(n, medical_terms[t]) \/ Contains(medical_terms[t], n)

-----------------------------------------------------------------------------
(* Properties of the template report and the settings (TriageSpec) *)

\* the template variant the specification gives the i-th finding of the
\* request: by its status and its effective probability
RuleVariant(i) ==
    LET e == EffectiveOf(i)
        status == findings[i].status
    IN  IF status = "POSITIVE"
        THEN (IF e >= ThresholdOf(i).strong_threshold THEN "POSITIVE_STRONG"
              ELSE "POSITIVE")
        ELSE IF status = "POSSIBLE" THEN "POSSIBLE"
        ELSE IF status = "UNCERTAIN" THEN "UNCERTAIN"
        ELSE (IF 10 * e < 100 THEN "NEG_STRONG" ELSE "NEG")

\* C14: for every contributing finding the template variant is the one its
\* status and its effective probability give: POSITIVE_STRONG iff POSITIVE and
\* effective >= strong_threshold, POSITIVE iff POSITIVE otherwise, POSSIBLE and
\* UNCERTAIN by status, NEG_STRONG iff NEG and effective < 0.1 (an effective
\* probability of 0 included), NEG iff NEG otherwise.
C14_VariantByEffectiveProbability ==
    rstate # "IDLE" =>
        \A i \in 1..Len(findings) :
            ThresholdOf(i).enabled =>
                get_finding_status_key(findings[i]) = RuleVariant(i)

\* text starts with prefix
StartsWith(text, prefix) ==
    Len(text) >= Len(prefix) /\ SubSeq(text, 1, Len(prefix)) = prefix

\* the entry of IMPRESSION_TEMPLATES the request's impression_text fills
ImpressionTemplate ==
    IF report.impression_text = Phrase.NORMAL_impression THEN "NORMAL"
    ELSE IF StartsWith(report.impression_text, Phrase.URGENT_prefix) THEN "URGENT"
    ELSE IF StartsWith(report.impression_text, Phrase.ROUTINE_prefix) THEN "ROUTINE"
    ELSE IF StartsWith(report.impression_text, Phrase.UNCERTAIN_prefix) THEN "UNCERTAIN"
    ELSE "none"

\* C15 as stated: the impression template is looked up by the triage level
\* alone, so the template used is the level's own entry.
C15_TemplateKeyedByLevel ==
    Analyzed => ImpressionTemplate = triage.level

\* the names of the request's findings of category cat, in input order, joined
\* by ", "
NamesJoined(cat) ==
    Join([k \in 1..Cardinality(PositionsOf(cat)) |->
              findings[KthOf(cat, k)].finding_name], Phrase.comma_space)

\* the level that goes with an entry of IMPRESSION_TEMPLATES
LevelOfTemplate(key) == IF key = "UNCERTAIN" THEN "ROUTINE" ELSE key

\* C15: the impression template is keyed by the winning category: the URGENT
\* entry with the urgent names when a finding is urgent, else the ROUTINE entry
\* with the routine names when one is routine, else the UNCERTAIN entry with
\* "Cannot exclude: " and the uncertain names when one is uncertain (level
\* ROUTINE), else the fixed NORMAL sentence; and the level that goes with the
\* entry is the level determine_triage returns.
C15_TemplateKeyedByCategory ==
    Analyzed =>
        LET cat == WinningCategory
        IN  /\ report.impression_text =
                  IF cat = "urgent"
                  THEN Phrase.URGENT_prefix \o NamesJoined(cat) \o Phrase.URGENT_suffix
                  ELSE IF cat = "routine"
                  THEN Phrase.ROUTINE_prefix \o NamesJoined(cat)
                       \o Phrase.Clinical_correlation
                  ELSE IF cat = "uncertain"
                  THEN Phrase.UNCERTAIN_prefix \o Phrase.Cannot_exclude_colon
                       \o NamesJoined(cat)
                  ELSE Phrase.NORMAL_impression
            /\ ImpressionTemplate # "none"
            /\ LevelOfTemplate(ImpressionTemplate) = triage.level

\* C15 witness: a request whose findings are uncertain at most has level ROUTINE
\* and fills the UNCERTAIN entry
C15_UncertainOnlyRoutine ==
    /\ Analyzed
    /\ WinningCategory = "uncertain"
    /\ triage.level = "ROUTINE"
    /\ ImpressionTemplate = "UNCERTAIN"

\* C16: a threshold configuration with triage_threshold >= strong_threshold is
\* rejected when settings are loaded or updated, so every per-finding threshold
\* of the stored settings, and every threshold a request classifies with, has
\* triage_threshold < strong_threshold.
C16_ThresholdsValid ==
    /\ \A name \in DOMAIN ai_settings.thresholds :
          ai_settings.thresholds[name].triage_threshold
              < ai_settings.thresholds[name].strong_threshold
    /\ \A i \in 1..Len(findings) :
          findings[i].triage_threshold < findings[i].strong_threshold

-----------------------------------------------------------------------------
(* Properties of calibration in the classifier (ClassifierSpec) *)

\* a predict call on the loaded classifier has returned its results
Predicted == cls_state = "done" /\ cls_loaded /\ ~cls_out.raised

\* the calibration file has neither strategy
NeitherStrategy(file) ==
    /\ file.exists /\ file.readable
    /\ "temperature" \notin DOMAIN file.data
    /\ "isotonic" \notin DOMAIN file.data

\* the calibration file's strategy is an isotonic map that lacks the finding
\* or has an empty point list for it
IsotonicWithout(file, name) ==
    /\ file.exists /\ file.readable
    /\ "temperature" \notin DOMAIN file.data
    /\ "isotonic" \in DOMAIN file.data
    /\ \/ name \notin DOMAIN file.data.isotonic
       \/ file.data.isotonic[name] = <<>>

\* the k-th result entry has its calibrated probability equal to its raw one
RawKept(k) ==
    cls_out.results[k].calibrated_probability = cls_out.results[k].probability

\* C17 as stated: with no calibration file present, with a file with neither
\* strategy, or with an isotonic map without the finding or with an empty point
\* list for it, predict returns calibrated_probability equal to the raw
\* probability of the finding.
C17_UnconfiguredKeepsRaw ==
    Predicted =>
        \A k \in 1..Len(cls_out.results) :
            \/ ~cls_file.exists
            \/ NeitherStrategy(cls_file)
            \/ IsotonicWithout(cls_file, cls_out.results[k].name)
            => RawKept(k)

\* the calibrated probability predict computes from raw by the default
\* temperature scaling
DefaultScaled(raw) ==
    Sigmoid([odds |-> Logit(raw).odds, over |-> DefaultTemperature])

\* C17: with a calibration file with neither strategy or one that cannot be
\* read, or with an isotonic map without the finding or with an empty point
\* list for it, calibrated_probability equals the raw probability; with no
\* calibration file present and calibrate on, it is the raw probability scaled
\* by the default temperature 1.2.
C17_NoCalibratorKeepsRaw ==
    Predicted =>
        \A k \in 1..Len(cls_out.results) :
            /\ \/ cls_file.exists /\ ~cls_file.readable
               \/ NeitherStrategy(cls_file)
               \/ IsotonicWithout(cls_file, cls_out.results[k].name)
               => RawKept(k)
            /\ ~cls_file.exists /\ cls_call.calibrate
               => cls_out.results[k].calibrated_probability
                      = DefaultScaled(cls_out.results[k].probability)

\* C17 witness: a file with neither strategy, calibrate on, and a finding of
\* raw probability 1/4 returned with that calibrated probability
C17_NeitherStrategyRawReturned ==
    /\ Predicted
    /\ NeitherStrategy(cls_file)
    /\ cls_call.calibrate
    /\ \E k \in 1..Len(cls_out.results) :
          /\ cls_out.results[k].probability = Frac(1, 4)
          /\ cls_out.results[k].calibrated_probability = Frac(1, 4)

\* the control points the isotonic calibrator in use has for the k-th result's
\* finding, as a set; empty when it has none
PointsFor(k) ==
    LET map == cls_calibrator.calibration_map
        name == cls_out.results[k].name
    IN  IF name \in DOMAIN map THEN {map[name][i] : i \in 1..Len(map[name])} ELSE {}

\* the points of P with the smallest raw value, and with the largest
SmallestRaw(P) == {p \in P : \A q \in P : FracLeq(p.raw, q.raw)}
LargestRaw(P) == {p \in P : \A q \in P : FracLeq(q.raw, p.raw)}

\* the isotonic calibrator was applied in the predict call that has returned
IsotonicApplied ==
    Predicted /\ cls_call.calibrate /\ cls_calibrator.kind = "isotonic"

\* C18: for a non-empty control-point list, in whatever order it was supplied,
\* a query at or below the smallest raw value returns the calibrated value of a
\* point of smallest raw value, and a query at or above the largest raw value
\* returns the calibrated value of a point of largest raw value.
C18_BoundaryValueOutsideRange ==
    IsotonicApplied =>
        \A k \in 1..Len(cls_out.results) :
            LET P == PointsFor(k)
                query == cls_out.results[k].probability
                value == cls_out.results[k].calibrated_probability
            IN  P # {} =>
                    /\ (\A p \in P : FracLeq(query, p.raw))
                       => \E p \in SmallestRaw(P) : value = p.cal
                    /\ (\A p \in P : FracLeq(p.raw, query))
                       => \E p \in LargestRaw(P) : value = p.cal

\* C18 witness: the list was supplied with the larger raw value first, and a
\* query below the smallest raw value got that point's calibrated value
C18_UnsortedListBelowRange ==
    /\ IsotonicApplied
    /\ \E k \in 1..Len(cls_out.results) :
          LET name == cls_out.results[k].name
              map == cls_calibrator.calibration_map
          IN  /\ name \in DOMAIN map
              /\ Len(map[name]) = 2
              /\ ~FracLeq(map[name][1].raw, map[name][2].raw)
              /\ ~FracLeq(map[name][2].raw, cls_out.results[k].probability)
              /\ cls_out.results[k].calibrated_probability = map[name][2].cal
              /\ map[name][2].cal # map[name][1].cal

\* temperature scaling with temperature 1 was applied in the predict call that
\* has returned
TemperatureOneApplied ==
    Predicted /\ cls_call.calibrate /\ cls_calibrator = TemperatureScaling(Frac(1, 1))

\* a probability strictly between 0 and 1
Inside01(p) == 0 < p.n /\ p.n < p.d

\* C22: temperature scaling with temperature 1 is the identity: for every raw
\* probability strictly between 0 and 1, the calibrated probability predict
\* computes (logit, division by the temperature, sigmoid) equals the raw one.
C22_TemperatureOneIdentity ==
    TemperatureOneApplied =>
        \A k \in 1..Len(cls_out.results) :
            Inside01(cls_out.results[k].probability) => RawKept(k)

-----------------------------------------------------------------------------
(* Claims on the service runs (ServiceSpec) *)

\* the analyze_image requests that went past the read of the upload
PastRead(r) ==
    /\ svc_resp[r].endpoint = "analyze"
    /\ svc_resp[r].classifier_run # "not run"

Unavailable == {"absent", "raised"}

\* C19: a classifier or detector that is absent or raises inside analyze_image
\* does not fail the request: every request that reached the models is answered
\* 200, with no findings when the classifier was absent or raised, no boxes
\* when the detector was absent or raised, and what the other model returned;
\* the backend fails only on an upload the service could not read, and on a
\* 200 it completes the report and the triage of the findings it was given.
C19_DegradedButSuccessful ==
    /\ \A r \in Requests :
         /\ PastRead(r) /\ svc_pc[r] = "done" => svc_resp[r].status = 200
         /\ svc_resp[r].classifier_run \in Unavailable => svc_resp[r].findings = <<>>
         /\ svc_resp[r].detector_run \in Unavailable => svc_resp[r].bounding_boxes = <<>>
         /\ svc_resp[r].classifier_run = "returned" => svc_resp[r].findings \in ServiceFindings
         /\ svc_resp[r].detector_run = "returned" =>
                svc_resp[r].bounding_boxes \in ServiceBoxes
    /\ rstate = "FAILED" => \E r \in Requests : svc_resp[r].status = 400
    /\ rstate \in FinalStates =>
         /\ \E r \in Requests : svc_resp[r].status = 200 /\ svc_resp[r].findings = response
         /\ findings = parse_findings(response, ai_settings)
         /\ triage = determine_triage(findings, ai_settings)
         /\ report = TemplateResult(findings, ai_settings)
         /\ report.findings_text # <<>>
         /\ report.impression_text # <<>>

\* the classifier raised and the detector returned a box: the answer is 200
\* with the box and no findings, and the backend completed on no findings
C19_ClassifierRaisedBoxesReturned ==
    /\ rstate \in FinalStates
    /\ response = <<>>
    /\ triage.level = "NORMAL"
    /\ \E r \in Requests :
         /\ svc_resp[r].status = 200
         /\ svc_resp[r].classifier_run = "raised"
         /\ svc_resp[r].detector_run = "returned"
         /\ svc_resp[r].bounding_boxes # <<>>

\* the requests inside model inference or model loading
InferenceSteps == {"classifier", "detector"}
LoadingSteps == {"get_classifier", "classifier_load", "get_detector", "detector_load"}
InModel == {r \in Requests : svc_pc[r] \in InferenceSteps \cup LoadingSteps}

\* C20: access to the shared classifier and detector is serialized: in every
\* interleaving of analyze_image and reload_models requests at most one
\* request is inside model inference or model loading, and a request inside
\* model inference never finds a handle that load_models has created and not
\* yet loaded.
C20_ModelAccessSerialized ==
    /\ Cardinality(InModel) <= 1
    /\ \A r \in Requests :
         svc_pc[r] \in InferenceSteps =>
             /\ svc_classifier # NewHandle
             /\ svc_detector # NewHandle

\* an analyze_image request waits at its read while a reload has replaced the
\* classifier by a handle that is not loaded yet
C20_ReloadDuringRead ==
    \E r, q \in Requests :
        /\ svc_pc[r] = "reading"
        /\ svc_resp[q].endpoint = "reload"
        /\ svc_pc[q] = "classifier_load"
        /\ svc_classifier = NewHandle

-----------------------------------------------------------------------------
(* Claims on the repeated runs (RepeatSpec) *)

\* generate_report has returned for the findings and settings of the report
\* the client received last
SameInputsAgain ==
    /\ rstate = "REWRITE_SKIPPED"
    /\ previous.report # NoReport
    /\ previous.findings = findings
    /\ previous.ai_settings = ai_settings

-----------------------------------------------------------------------------
(* Further claims on the detector runs (DetectorSpec) *)

\* the fraction norm[1] / norm[2] is the model-space coordinate over the input
\* size
NormalizedFrom(norm, coordinate) ==
    /\ norm[2] > 0
    /\ norm[1] * InputSize = coordinate * norm[2]

\* px is the fraction norm[1] / norm[2] times extent, truncated
TruncatedProduct(px, norm, extent) ==
    /\ px * norm[2] <= norm[1] * extent
    /\ norm[1] * extent < (px + 1) * norm[2]

\* C23: for every returned box, each normalized coordinate is the model-space
\* coordinate divided by the input size 512, and each pixel coordinate is the
\* normalized coordinate multiplied by the original width (x) or height (y),
\* truncated to an integer.
C23_CoordinatesMapped ==
    det_state = "done" =>
        \A k \in 1..Len(det_result) :
            LET d == det_result[k]
                w == det_request.original_size[1]
                h == det_request.original_size[2]
            IN  /\ NormalizedFrom(d.x_min, d.box.x1) /\ TruncatedProduct(d.x_min_px, d.x_min, w)
                /\ NormalizedFrom(d.y_min, d.box.y1) /\ TruncatedProduct(d.y_min_px, d.y_min, h)
                /\ NormalizedFrom(d.x_max, d.box.x2) /\ TruncatedProduct(d.x_max_px, d.x_max, w)
                /\ NormalizedFrom(d.y_max, d.box.y2) /\ TruncatedProduct(d.y_max_px, d.y_max, h)

\* a returned box whose right edge 3 gives 3/512 * 300 = 1.75..., pixel 1
C23_RightEdgeTruncated ==
    /\ det_state = "done"
    /\ \E k \in 1..Len(det_result) :
          /\ det_result[k].box.x2 = 3
          /\ det_request.original_size[1] = 300
          /\ det_result[k].x_max_px = 1
          /\ det_result[k].y_max_px = 0

\* the box and the score of the i-th filtered candidate
BoxOf(i) == Filtered[i].box
ScoreOf(i) == Filtered[i].score

\* C24: after non_max_suppression no two kept boxes have IoU above the
\* threshold, every box that was not kept has IoU above the threshold with a
\* kept box of greater or equal confidence, and the kept indices are distinct
\* and listed by non-increasing confidence.
C24_SuppressionResult ==
    det_state = "done" =>
        /\ \A a, b \in 1..Len(det_keep) :
             a < b =>
                 /\ det_keep[a] # det_keep[b]
                 /\ ScoreOf(det_keep[a]) >= ScoreOf(det_keep[b])
                 /\ ~IouExceeds(BoxOf(det_keep[a]), BoxOf(det_keep[b]),
                                det_request.iou_threshold)
        /\ \A k \in 1..Len(det_keep) : det_keep[k] \in 1..Len(Filtered)
        /\ \A i \in 1..Len(Filtered) :
             ~Survives(i) =>
                 \E k \in 1..Len(det_keep) :
                     /\ ScoreOf(det_keep[k]) >= ScoreOf(i)
                     /\ IouExceeds(BoxOf(det_keep[k]), BoxOf(i), det_request.iou_threshold)

\* of three boxes that passed the confidence filter, one was removed by a kept
\* box of the same confidence and two were kept
C24_SuppressedByEqualScore ==
    /\ det_state = "done"
    /\ Len(Filtered) = 3
    /\ Len(det_keep) = 2
    /\ \E i \in 1..Len(Filtered) :
          /\ ~Survives(i)
          /\ \E k \in 1..Len(det_keep) :
                /\ ScoreOf(det_keep[k]) = ScoreOf(i)
                /\ IouExceeds(BoxOf(det_keep[k]), BoxOf(i), det_request.iou_threshold)

-----------------------------------------------------------------------------
(* Claims on the isotonic runs (IsotonicSpec) *)

\* a calibrate call has returned or raised
IsotonicCalled == cls_state = "done" /\ cls_calibrator.kind = "isotonic"

\* the list the calibrator has for the finding of the call, and its points
ListOfCall == cls_calibrator.calibration_map[cls_call.finding]
PointsOfCall == {ListOfCall[i] : i \in 1..Len(ListOfCall)}

\* value lies on the line through a and b at query (a.raw < b.raw):
\* value * (b.raw - a.raw) = a.cal * (b.raw - query) + b.cal * (query - a.raw),
\* with every fraction over the common denominator
OnLine(value, a, b, query) ==
    LET D == a.raw.d * b.raw.d * query.d * a.cal.d * b.cal.d * value.d
        X(f) == f.n * (D \div f.d)
    IN  X(value) * (X(b.raw) - X(a.raw))
            = X(a.cal) * (X(b.raw) - X(query)) + X(b.cal) * (X(query) - X(a.raw))

\* C25: calibrate is total on non-empty lists: for every query in [0,1] and
\* every list, lists with duplicate raw values included, it returns a boundary
\* value or the linear interpolation of two points that bracket the query; it
\* never divides by zero and never falls through to return the query itself.
C25_BoundaryOrInterpolation ==
    IsotonicCalled =>
        LET P == PointsOfCall
            query == cls_call.probability
        IN  /\ ~cls_out.raised
            /\ \/ /\ \A p \in P : FracLeq(query, p.raw)
                  /\ \E p \in SmallestRaw(P) : cls_out.value = p.cal
               \/ /\ \A p \in P : FracLeq(p.raw, query)
                  /\ \E p \in LargestRaw(P) : cls_out.value = p.cal
               \/ \E a, b \in P :
                     /\ FracLeq(a.raw, query) /\ FracLeq(query, b.raw)
                     /\ ~FracLeq(b.raw, a.raw)
                     /\ ~\E c \in P : ~FracLeq(c.raw, a.raw) /\ ~FracLeq(b.raw, c.raw)
                     /\ OnLine(cls_out.value, a, b, query)

\* a list with two points of raw value 1/2 between two others, and the query
\* 1/2: the value returned is the calibrated value of one of the two, which
\* is not the query
C25_QueryOnDuplicate ==
    /\ IsotonicCalled
    /\ Len(ListOfCall) = 4
    /\ cls_call.probability = Frac(1, 2)
    /\ \E p, q \in PointsOfCall : p.raw = Frac(1, 4) /\ q.raw = Frac(3, 4)
    /\ \E i, j \in 1..4 : i # j /\ ListOfCall[i].raw = Frac(1, 2) /\ ListOfCall[j].raw = Frac(1, 2)
                          /\ ListOfCall[i].cal # ListOfCall[j].cal
    /\ ~cls_out.raised
    /\ cls_out.value # Frac(1, 2)

\* the lists with the points of list in another order
Reorderings(list) ==
    {[i \in 1..Len(list) |-> list[f[i]]] :
        f \in {g \in [1..Len(list) -> 1..Len(list)] :
                  \A i, j \in 1..Len(list) : i # j => g[i] # g[j]}}

\* C26: the result of calibrate does not depend on the order in which the
\* control points are supplied: every reordering of the list, lists where two
\* points share a raw value included, gives the same value for the same query.
C26_OrderIndependent ==
    IsotonicCalled =>
        \A other \in Reorderings(ListOfCall) :
            IsotonicCalibrator_calibrate(cls_call.finding :> other, cls_call.finding,
                                         cls_call.probability) = cls_out

-----------------------------------------------------------------------------
(* Claims on the asynchronous runs (AsyncSpec) *)

\* the inference output the worker analysed for study s, from its Finding rows
AnalysedOutput(s) ==
    [i \in 1..Len(study_table[s].findings) |->
        RawFinding(study_table[s].findings[i].finding_name,
                   <<study_table[s].findings[i].probability,
                     study_table[s].findings[i].calibrated_probability>>)]

\* what the synchronous path makes of that output under the stored settings
SyncFindings(s) == parse_findings(AnalysedOutput(s), ai_settings)

\* C27: for the same inference output and the same thresholds, all findings
\* enabled, the worker (determine_status and determine_triage of tasks.py)
\* gives each finding the status, and the study the triage level and the
\* reason strings, that parse_findings and ReportGenerator.determine_triage
\* give.
C27_WorkerMatchesBackend ==
    \A s \in Studies :
        study_table[s].status = "completed" =>
            /\ \A i \in 1..Len(study_table[s].findings) :
                   study_table[s].findings[i].status = SyncFindings(s)[i].status
            /\ study_table[s].triage_level = determine_triage(SyncFindings(s), ai_settings).level
            /\ study_table[s].triage_reasons
                   = determine_triage(SyncFindings(s), ai_settings).reasons

\* C28: every study accepted with async_mode=true, whose row is "queued", is
\* eventually analysed by the worker: its row reaches "completed" or "failed".
C28_QueuedEventuallyAnalysed ==
    \A s \in Studies :
        (study_table[s].status = "queued")
            ~> (study_table[s].status \in {"completed", "failed"})
=============================================================================
